---- MODULE Spec2Model ----
(***************************************************************************)
(* A model of the ajna-keeper write path: the per-signer nonce sequencer   *)
(* (NonceTracker.queueTransaction), the callers that submit transactions   *)
(* through it (approveErc20, transferErc20, updatePoolInterestIfStale,     *)
(* swapWithAerodromeRouter) and the kick engine (handleKicks,              *)
(* getLoansToKick, approveBalanceForLoanToKick, kick, clearAllowances).    *)
(*                                                                         *)
(* Amounts are WAD values written in units of 1/100 token.  Where the code *)
(* multiplies JavaScript numbers and the rounding of the product decides a *)
(* branch (the price filter of getLoansToKick), the doubles are computed.  *)
(***************************************************************************)
EXTENDS Integers, Sequences, FiniteSets, TLC

\* Number of concurrently running cycles (tasks) that submit transactions.
NumTasks == 2

Signers == {"s1", "s2"}
Tasks == 1 .. NumTasks

VARIABLES
    \* ---- NonceSequencer (src/nonce.ts, not among the sources) ----
    nonceCache,   \* signer -> <<>> (nothing cached) or <<n>> (last nonce handed out)
    queue,        \* signer -> FIFO of the tasks whose operation is queued or running
    op,           \* task -> its outstanding queued operation
    nextId,       \* signer -> submission counter: ids are given in submission order
    \* ---- the chain, as far as the signer's account is concerned ----
    chainNonce,   \* signer -> transaction count (pending included)
    pendingTx,    \* signer -> ids of the transactions broadcast and not yet mined
    \* ---- history ----
    handed,       \* signer -> sequence of [id, nonce, fetched, sent] in hand-out order
    broadcasts,   \* signer -> sequence of [id, nonce] in broadcast order
    timedOut,     \* signer -> ids of the transactions whose confirmation wait expired
    \* ---- callers ----
    task,         \* task -> [kind, signer, pc, result]
    dryRun,       \* KeeperConfig.dryRun
    \* ---- the pool and the quote token, as handleKicks reads them ----
    loans,        \* borrower -> the loan as pool.getLoan returns it
    balance,      \* the signer's quote-token balance
    allowance,    \* the quote-token allowance the signer granted to the pool
    quoteDecimals, \* the decimals of the pool's quote token
    \* ---- handleKicks / getLoansToKick ----
    kpc,          \* where the batch stands
    loanMap,      \* borrower -> liquidation bond, as pool.getLoans returned it
    borrowersSortedByBond,
    i,            \* the generator's loop index (1-based here)
    loanToKick,   \* the candidate the generator yielded last
    \* ---- history of the batch ----
    examined,     \* what each iteration of the generator read and decided
    approvals,    \* the approvals kick asked for, with what it had observed
    kicks,        \* borrower -> how its kick went
    granted,      \* an approval of a positive amount was confirmed in this batch
    \* ---- price resolution (coingecko.ts, alchemy-prices.ts) ----
    priceIn,      \* the configuration and what the two services answer
    priceOut,     \* [value, calls]: what getPriceCoinGecko returned and whom it asked
    \* ---- swapWithAerodromeRouter, AerodromeQuoteProvider ----
    swap,         \* task -> the arguments and locals of its swap
    routerAllowance, \* signer -> allowance of the Aerodrome router for the token swapped
    \* ---- settlement ----
    auction,      \* the unsettled auction of the pool, as the subgraph and the pool report it
    settle,       \* the settlement engine: its configuration, position and the calls it issued
    \* ---- pool snapshot cache ----
    snapshotCache, \* lower-case pool address -> "none", or the state of its entry
    inFlight,     \* 0 for null, or the caller whose request the promise stands for
    snapCall,     \* task -> its call of getPoolSnapshotsCached
    \* ---- reward collection ----
    kickerInfo,   \* the signer's bond in the pool: claimable and locked
    liquidations, \* auction -> its state, its age and the bond its kick locked
    bondCalls,    \* the calls of collectBondFromPool so far
    lpMap,        \* LpCollector: bucket index -> reward LP tracked
    subscribed,   \* LpCollector: the subscription is active
    lpEvents,     \* the BucketTakeLPAwarded events emitted while subscribed
    \* ---- pool interest ----
    interest,     \* task -> what its interest update read, estimated and found stale
    \* ---- AerodromeKeeperTaker ----
    taker         \* the contract's token balances and allowances, and the last call

seqVars == <<nonceCache, queue, op, nextId, chainNonce, pendingTx, handed,
             broadcasts, timedOut>>
taskVars == <<task, dryRun>>
chainVars == <<loans, balance, allowance, quoteDecimals>>
kickVars == <<kpc, loanMap, borrowersSortedByBond, i, loanToKick, examined,
              approvals, kicks, granted>>
priceVars == <<priceIn, priceOut>>
swapVars == <<swap, routerAllowance>>
settleVars == <<auction, settle>>
snapVars == <<snapshotCache, inFlight, snapCall>>
bondVars == <<kickerInfo, liquidations, bondCalls>>
lpVars == <<lpMap, subscribed, lpEvents>>
rewardVars == <<bondVars, lpVars>>
laterVars == <<snapVars, rewardVars, interest, taker>>
coreVars == <<seqVars, taskVars, chainVars, kickVars, priceVars, swapVars, settleVars,
             interest, taker>>
extVars == <<priceVars, swapVars, settleVars, laterVars>>
callerVars == <<taskVars, chainVars, kickVars, extVars>>
vars == <<seqVars, callerVars>>

\* The signer's transaction count when the keeper starts.
StartNonce(s) == IF s = "s1" THEN 0 ELSE 7

NoOp == [state |-> "none", kind |-> "none", ref |-> 0, id |-> 0, nonce |-> 0,
         retried |-> FALSE, error |-> "none"]

SignerOf(t) == task[t].signer

(***************************************************************************)
(* NonceSequencer                                                          *)
(***************************************************************************)

\* submit: the operation joins the tail of its signer's FIFO.
QueueTransaction(t, kind, ref) ==
    /\ op[t].state \in {"none", "ok", "failed"}
    /\ queue' = [queue EXCEPT ![SignerOf(t)] = Append(@, t)]
    /\ op' = [op EXCEPT ![t] = [NoOp EXCEPT !.state = "queued", !.kind = kind,
                                            !.ref = ref,
                                            !.id = nextId[SignerOf(t)]]]
    /\ nextId' = [nextId EXCEPT ![SignerOf(t)] = @ + 1]

\* The nonce the next operation receives: the chain's on the first call,
\* cached + 1 afterwards.
GetNonce(s) ==
    IF nonceCache[s] = <<>> THEN chainNonce[s] ELSE nonceCache[s][1] + 1

NextInQueueLast(s) == queue[s][Len(queue[s])]

\* The operation the signer's queue serves next.
NextInQueue(s) == Head(queue[s])

\* The head of the queue is handed its nonce once its predecessor has left
\* the queue.
HandNonce(s) ==
    /\ queue[s] # <<>>
    /\ LET t == NextInQueue(s)
           n == GetNonce(s)
       IN /\ op[t].state = "queued"
          /\ \A u \in Tasks : SignerOf(u) = s => op[u].state \notin {"handed", "inflight"}
          /\ nonceCache' = [nonceCache EXCEPT ![s] = <<n>>]
          /\ op' = [op EXCEPT ![t].state = "handed", ![t].nonce = n]
          /\ handed' = [handed EXCEPT ![s] =
                Append(@, [id |-> op[t].id, kind |-> op[t].kind, ref |-> op[t].ref,
                           nonce |-> n,
                           fetched |-> nonceCache[s] = <<>>,
                           sent |-> Len(broadcasts[s])])]
    /\ UNCHANGED <<queue, nextId, chainNonce, pendingTx, broadcasts, timedOut>>
    /\ UNCHANGED callerVars

\* On success or failure the operation leaves the queue and its caller resumes.
Finish(t, state, error) ==
    /\ op' = [op EXCEPT ![t].state = state, ![t].error = error]
    /\ queue' = [queue EXCEPT ![SignerOf(t)] = Tail(@)]

NonceMismatchRetryAgain(t) ==
    LET s == SignerOf(t) IN
    /\ op[t].state = "handed"
    /\ op[t].nonce # chainNonce[s]
    /\ nonceCache' = [nonceCache EXCEPT ![s] = <<chainNonce[s]>>]
    /\ op' = [op EXCEPT ![t].nonce = chainNonce[s]]
    /\ handed' = [handed EXCEPT ![s] =
          Append(@, [id |-> op[t].id, kind |-> op[t].kind, ref |-> op[t].ref,
                     nonce |-> chainNonce[s],
                     fetched |-> TRUE, sent |-> Len(broadcasts[s])])]
    /\ UNCHANGED queue
    /\ UNCHANGED <<nextId, chainNonce, pendingTx, broadcasts, timedOut>>
    /\ UNCHANGED callerVars

\* A nonce-mismatch rejection: the cache is discarded, the nonce re-fetched from
\* the chain, and the same operation retried once.
NonceMismatch(t) ==
    LET s == SignerOf(t) IN
    /\ op[t].state = "handed"
    /\ op[t].nonce # chainNonce[s]
    /\ IF op[t].retried
       THEN /\ Finish(t, "failed", "nonce")
            /\ nonceCache' = [nonceCache EXCEPT ![s] = <<>>]
            /\ UNCHANGED handed
       ELSE /\ nonceCache' = [nonceCache EXCEPT ![s] = <<chainNonce[s]>>]
            /\ op' = [op EXCEPT ![t].nonce = chainNonce[s], ![t].retried = TRUE]
            /\ handed' = [handed EXCEPT ![s] =
                  Append(@, [id |-> op[t].id, kind |-> op[t].kind, ref |-> op[t].ref,
                             nonce |-> chainNonce[s],
                             fetched |-> TRUE, sent |-> Len(broadcasts[s])])]
            /\ UNCHANGED queue
    /\ UNCHANGED <<nextId, chainNonce, pendingTx, broadcasts, timedOut>>
    /\ UNCHANGED callerVars

(***************************************************************************)
(* The callbacks handed to queueTransaction: send with the nonce given,    *)
(* then wait for the receipt.                                              *)
(***************************************************************************)

\* How a callback waits for its transaction: tx.wait() for all of them, raced
\* against a two-minute timer for the Aerodrome swap.
ConfirmationWait(kind) ==
    IF kind = "swap" THEN "race" ELSE "wait"

\* contract.<method>(..., {nonce}): the node accepts the transaction.
BroadcastTx(t) ==
    LET s == SignerOf(t) IN
    /\ op[t].state = "handed"
    /\ op[t].nonce = chainNonce[s]
    /\ chainNonce' = [chainNonce EXCEPT ![s] = @ + 1]
    /\ pendingTx' = [pendingTx EXCEPT ![s] = @ \cup {op[t].id}]
    /\ broadcasts' = [broadcasts EXCEPT ![s] =
          Append(@, [id |-> op[t].id, kind |-> op[t].kind, ref |-> op[t].ref,
                     nonce |-> op[t].nonce])]
    /\ op' = [op EXCEPT ![t].state = "inflight"]
    /\ UNCHANGED queue
    /\ UNCHANGED <<nonceCache, nextId, handed, timedOut>>
    /\ UNCHANGED callerVars

\* The send itself throws for a reason other than the nonce (the gas estimate
\* or the static call reverts, the node is unreachable): nothing is sent, the
\* error reaches the caller, the operation is not retried.
BroadcastFail(t) ==
    /\ op[t].state = "handed"
    /\ Finish(t, "failed", "send")
    /\ UNCHANGED <<nonceCache, nextId, chainNonce, pendingTx, handed, broadcasts,
                   timedOut>>
    /\ UNCHANGED callerVars

\* tx.wait() resolves: the transaction was mined and succeeded.
Confirm(t) ==
    /\ op[t].state = "inflight"
    /\ pendingTx' = [pendingTx EXCEPT ![SignerOf(t)] = @ \ {op[t].id}]
    /\ Finish(t, "ok", "none")
    /\ UNCHANGED <<nonceCache, nextId, chainNonce, handed, broadcasts, timedOut>>
    /\ UNCHANGED callerVars

\* tx.wait() rejects: the transaction was mined and reverted.
Revert(t) ==
    /\ op[t].state = "inflight"
    /\ pendingTx' = [pendingTx EXCEPT ![SignerOf(t)] = @ \ {op[t].id}]
    /\ Finish(t, "failed", "reverted")
    /\ UNCHANGED <<nonceCache, nextId, chainNonce, handed, broadcasts, timedOut>>
    /\ UNCHANGED callerVars

\* The timer of Promise.race fires first: the callback rejects while the
\* transaction is still unconfirmed.
Timeout(t) ==
    /\ op[t].state = "inflight"
    /\ ConfirmationWait(op[t].kind) = "race"
    /\ timedOut' = [timedOut EXCEPT ![SignerOf(t)] = @ \cup {op[t].id}]
    /\ Finish(t, "failed", "timeout")
    /\ UNCHANGED <<nonceCache, nextId, chainNonce, pendingTx, handed, broadcasts>>
    /\ UNCHANGED callerVars

\* The chain mines a transaction nobody waits for any more.
Mine(s) ==
    /\ \E id \in pendingTx[s] :
          /\ \A t \in Tasks : ~(op[t].state = "inflight" /\ op[t].id = id)
          /\ pendingTx' = [pendingTx EXCEPT ![s] = @ \ {id}]
    /\ UNCHANGED <<nonceCache, queue, op, nextId, chainNonce, handed, broadcasts,
                   timedOut>>
    /\ UNCHANGED callerVars

\* How many transactions a signer may send past the sequencer.
MaxOutOfBand == 2

\* The transactions a signer has sent past the sequencer so far.
OutOfBandSent(s) == chainNonce[s] - StartNonce(s) - Len(broadcasts[s])

\* The nonces handed to direct callers of NonceTracker.getNonce so far.
DirectCalls(s) == Len(SelectSeq(handed[s], LAMBDA h : h.id = 0))

\* A transaction sent with the signer's key outside the sequencer (the SDK's
\* settle and verifyAndSubmit): the chain's nonce moves on. The caller goes on
\* to NonceTracker.getNonce before it sends another.
OutOfBandTx(s) ==
    /\ OutOfBandSent(s) < MaxOutOfBand
    /\ DirectCalls(s) = OutOfBandSent(s)
    /\ chainNonce' = [chainNonce EXCEPT ![s] = @ + 1]
    /\ UNCHANGED <<nonceCache, queue, op, nextId, pendingTx, handed, broadcasts,
                   timedOut>>
    /\ UNCHANGED callerVars

\* NonceTracker.getNonce(signer) called directly after the transaction sent
\* past the sequencer: the tracker hands the caller a nonce as it does to a
\* queued operation, and the cache moves on; no transaction uses the nonce.
NonceTrackerGetNonce(s) ==
    /\ DirectCalls(s) < OutOfBandSent(s)
    /\ LET n == GetNonce(s) IN
       /\ nonceCache' = [nonceCache EXCEPT ![s] = <<n>>]
       /\ handed' = [handed EXCEPT ![s] =
             Append(@, [id |-> 0, kind |-> "getNonce", ref |-> 0, nonce |-> n,
                        fetched |-> nonceCache[s] = <<>>,
                        sent |-> Len(broadcasts[s])])]
    /\ UNCHANGED <<queue, op, nextId, chainNonce, pendingTx, broadcasts, timedOut>>
    /\ UNCHANGED callerVars

(***************************************************************************)
(* Callers of the sequencer                                                *)
(***************************************************************************)

ONE_WEEK_SECONDS == 7 * 24 * 60 * 60

\* The staleness values tried: just below, at and above one week.
Staleness == {ONE_WEEK_SECONDS - 1, ONE_WEEK_SECONDS, ONE_WEEK_SECONDS + 1}

SetTask(t, pc, result) ==
    task' = [task EXCEPT ![t].pc = pc, ![t].result = result]

\* The caller takes the settled operation's result.
TakeResult(t) ==
    op' = [op EXCEPT ![t] = NoOp]

Settled(t) == op[t].state \in {"ok", "failed"}

\* approveErc20: the approval is queued.
approveErc20(t) ==
    /\ task[t].kind = "approveErc20"
    /\ task[t].pc = "start"
    /\ QueueTransaction(t, "approveErc20", 0)
    /\ SetTask(t, "await", "none")
    /\ UNCHANGED <<nonceCache, chainNonce, pendingTx, handed, broadcasts, timedOut>>
    /\ UNCHANGED <<dryRun, chainVars, kickVars, extVars>>

\* transferErc20: the transfer is queued.
transferErc20(t) ==
    /\ task[t].kind = "transferErc20"
    /\ task[t].pc = "start"
    /\ QueueTransaction(t, "transferErc20", 0)
    /\ SetTask(t, "await", "none")
    /\ UNCHANGED <<nonceCache, chainNonce, pendingTx, handed, broadcasts, timedOut>>
    /\ UNCHANGED <<dryRun, chainVars, kickVars, extVars>>

\* return await NonceTracker.queueTransaction(...): the receipt, or the error.
erc20Return(t) ==
    /\ task[t].kind \in {"approveErc20", "transferErc20"}
    /\ task[t].pc = "await"
    /\ Settled(t)
    /\ SetTask(t, "done", op[t].state)
    /\ TakeResult(t)
    /\ UNCHANGED <<nonceCache, queue, nextId, chainNonce, pendingTx, handed,
                   broadcasts, timedOut>>
    /\ UNCHANGED <<dryRun, chainVars, kickVars, extVars>>

\* The staleness a read of inflatorInfo finds: what the task's other read
\* found in the same second, any of the values tried otherwise.
PoolStaleness(t) ==
    IF interest[t].read = "ok" \/ interest[t].isStale # "unknown"
    THEN {interest[t].timeSinceUpdate}
    ELSE Staleness

\* An update that goes to the queue whatever the gas estimate did.
GasEstimateIgnored(gasOk) == FALSE

\* poolContract.connect(signer).estimateGas.updateInterest() throws.
GasEstimateThrows(gasOk) == ~gasOk

\* updatePoolInterestIfStale up to the queueing of updateInterest().
updatePoolInterestIfStale(t) ==
    /\ task[t].kind = "updateInterest"
    /\ task[t].pc = "start"
    /\ \E readOk \in BOOLEAN, timeSinceUpdate \in PoolStaleness(t), gasOk \in BOOLEAN :
          IF ~readOk
          THEN /\ SetTask(t, "done", "error")
               /\ interest' = [interest EXCEPT ![t].read = "failed"]
               /\ UNCHANGED <<queue, op, nextId>>
          ELSE IF timeSinceUpdate < ONE_WEEK_SECONDS
          THEN /\ SetTask(t, "done", "fresh")
               /\ interest' = [interest EXCEPT ![t].read = "ok",
                                               ![t].timeSinceUpdate = timeSinceUpdate]
               /\ UNCHANGED <<queue, op, nextId>>
          ELSE IF dryRun
          THEN /\ SetTask(t, "done", "dryRun")
               /\ interest' = [interest EXCEPT ![t].read = "ok",
                                               ![t].timeSinceUpdate = timeSinceUpdate]
               /\ UNCHANGED <<queue, op, nextId>>
          ELSE IF GasEstimateThrows(gasOk)
          THEN /\ SetTask(t, "done", "error")
               /\ interest' = [interest EXCEPT ![t].read = "ok",
                                               ![t].timeSinceUpdate = timeSinceUpdate,
                                               ![t].gas = "failed"]
               /\ UNCHANGED <<queue, op, nextId>>
          ELSE /\ QueueTransaction(t, "updateInterest", 0)
               /\ SetTask(t, "await", "none")
               /\ interest' = [interest EXCEPT ![t].read = "ok",
                                               ![t].timeSinceUpdate = timeSinceUpdate,
                                               ![t].gas = IF gasOk THEN "ok"
                                                          ELSE "failed"]
    /\ UNCHANGED <<nonceCache, chainNonce, pendingTx, handed, broadcasts, timedOut>>
    /\ UNCHANGED <<dryRun, chainVars, kickVars, priceVars, swapVars, settleVars,
                   snapVars, rewardVars, taker>>

\* getInterestStaleness: the time since the last update, 0 when the read
\* fails.
getInterestStaleness(readOk, timeSinceUpdate) ==
    IF readOk THEN timeSinceUpdate ELSE 0

\* isInterestStale: staleness > ONE_WEEK_SECONDS, asked about the pool of the
\* task's update.
isInterestStale(t) ==
    /\ task[t].kind = "updateInterest"
    /\ interest[t].isStale = "unknown"
    /\ \E readOk \in BOOLEAN, timeSinceUpdate \in PoolStaleness(t) :
          interest' = [interest EXCEPT
              ![t].timeSinceUpdate = timeSinceUpdate,
              ![t].isStale =
                  IF ~readOk THEN "unread"
                  ELSE IF getInterestStaleness(readOk, timeSinceUpdate)
                              > ONE_WEEK_SECONDS
                  THEN "true" ELSE "false"]
    /\ UNCHANGED <<seqVars, taskVars, chainVars, kickVars, priceVars, swapVars,
                   settleVars, snapVars, rewardVars, taker>>

\* updatePoolInterestIfStale after the queue: updated, or the error caught.
updatePoolInterestReturn(t) ==
    /\ task[t].kind = "updateInterest"
    /\ task[t].pc = "await"
    /\ Settled(t)
    /\ SetTask(t, "done", IF op[t].state = "ok" THEN "updated" ELSE "error")
    /\ TakeResult(t)
    /\ UNCHANGED <<nonceCache, queue, nextId, chainNonce, pendingTx, handed,
                   broadcasts, timedOut>>
    /\ UNCHANGED <<dryRun, chainVars, kickVars, extVars>>

ZeroAddress == "0x0000000000000000000000000000000000000000"

\* ethers.constants.MaxUint256; the largest integer at hand stands for it, all
\* amounts being far below.
MaxUint256 == 2147483647

\* factoryContract.getPool(tokenA, tokenB, stable)
getPool(in, stable) == IF stable THEN in.stablePool ELSE in.volatilePool

\* The getPool call that rejects, counted as the calls are made: the first,
\* the second, or none (0).
GetPoolCalls == 0 .. 2

\* Detection with no call answered: the first call rejected.
NoPoolFound == [found |-> FALSE, isStable |-> FALSE, poolAddress |-> ZeroAddress,
                probes |-> <<>>, rejected |-> TRUE]

FindPoolStableFirst(in, rejects) ==
    IF rejects = 1
    THEN NoPoolFound
    ELSE IF in.poolType # "undefined"
    THEN [found |-> getPool(in, in.poolType = "stable") # ZeroAddress,
          isStable |-> in.poolType = "stable",
          poolAddress |-> getPool(in, in.poolType = "stable"),
          probes |-> <<in.poolType>>, rejected |-> FALSE]
    ELSE IF getPool(in, TRUE) # ZeroAddress
    THEN [found |-> TRUE, isStable |-> TRUE, poolAddress |-> getPool(in, TRUE),
          probes |-> <<"stable">>, rejected |-> FALSE]
    ELSE IF rejects = 2
    THEN [NoPoolFound EXCEPT !.probes = <<"stable">>]
    ELSE [found |-> getPool(in, FALSE) # ZeroAddress, isStable |-> FALSE,
          poolAddress |-> getPool(in, FALSE), probes |-> <<"stable", "volatile">>,
          rejected |-> FALSE]

\* Step 1 of swapWithAerodromeRouter: the pool of the type given, or the
\* volatile pool and, when there is none, the stable pool.  probes lists the
\* calls the factory answered; a call that rejects ends the detection in the
\* catch block.
FindPool(in, rejects) ==
    IF rejects = 1
    THEN NoPoolFound
    ELSE IF in.poolType # "undefined"
    THEN [found |-> getPool(in, in.poolType = "stable") # ZeroAddress,
          isStable |-> in.poolType = "stable",
          poolAddress |-> getPool(in, in.poolType = "stable"),
          probes |-> <<in.poolType>>, rejected |-> FALSE]
    ELSE IF getPool(in, FALSE) # ZeroAddress
    THEN [found |-> TRUE, isStable |-> FALSE, poolAddress |-> getPool(in, FALSE),
          probes |-> <<"volatile">>, rejected |-> FALSE]
    ELSE IF rejects = 2
    THEN [NoPoolFound EXCEPT !.probes = <<"volatile">>]
    ELSE [found |-> getPool(in, TRUE) # ZeroAddress, isStable |-> TRUE,
          poolAddress |-> getPool(in, TRUE), probes |-> <<"volatile", "stable">>,
          rejected |-> FALSE]

NoPoolInfo == [asked |-> FALSE, exists |-> FALSE, isStable |-> FALSE,
               poolAddress |-> ZeroAddress, probes |-> <<>>]

poolExistsWithFallback(in, rejects) ==
    IF rejects = 1
    THEN [NoPoolInfo EXCEPT !.asked = TRUE]
    ELSE IF getPool(in, in.poolType = "stable") # ZeroAddress
    THEN [asked |-> TRUE, exists |-> TRUE, isStable |-> in.poolType = "stable",
          poolAddress |-> getPool(in, in.poolType = "stable"),
          probes |-> <<IF in.poolType = "stable" THEN "stable" ELSE "volatile">>]
    ELSE IF rejects = 2
    THEN [NoPoolInfo EXCEPT !.asked = TRUE,
             !.probes = <<IF in.poolType = "stable" THEN "stable" ELSE "volatile">>]
    ELSE IF getPool(in, in.poolType # "stable") # ZeroAddress
    THEN [asked |-> TRUE, exists |-> TRUE, isStable |-> in.poolType # "stable",
          poolAddress |-> getPool(in, in.poolType # "stable"),
          probes |-> IF in.poolType = "stable" THEN <<"stable", "volatile">>
                     ELSE <<"volatile", "stable">>]
    ELSE [NoPoolInfo EXCEPT !.asked = TRUE, !.probes = <<"volatile", "stable">>]

\* AerodromeQuoteProvider.poolExists: {exists, isStable, poolAddress}, and
\* {exists: false} when no pool is found or a call rejects, whatever the
\* calls before it answered.  probes lists the calls the factory answered.
poolExists(in, rejects) ==
    IF rejects = 1
    THEN [NoPoolInfo EXCEPT !.asked = TRUE]
    ELSE IF in.poolType # "undefined"
    THEN IF getPool(in, in.poolType = "stable") # ZeroAddress
         THEN [asked |-> TRUE, exists |-> TRUE, isStable |-> in.poolType = "stable",
               poolAddress |-> getPool(in, in.poolType = "stable"),
               probes |-> <<in.poolType>>]
         ELSE [NoPoolInfo EXCEPT !.asked = TRUE, !.probes = <<in.poolType>>]
    ELSE IF getPool(in, FALSE) # ZeroAddress
    THEN [asked |-> TRUE, exists |-> TRUE, isStable |-> FALSE,
          poolAddress |-> getPool(in, FALSE), probes |-> <<"volatile">>]
    ELSE IF rejects = 2
    THEN [NoPoolInfo EXCEPT !.asked = TRUE, !.probes = <<"volatile">>]
    ELSE IF getPool(in, TRUE) # ZeroAddress
    THEN [asked |-> TRUE, exists |-> TRUE, isStable |-> TRUE,
          poolAddress |-> getPool(in, TRUE), probes |-> <<"volatile", "stable">>]
    ELSE [NoPoolInfo EXCEPT !.asked = TRUE, !.probes = <<"volatile", "stable">>]

\* A getPool call of the detection rejected: the call numbered rejects was
\* made, the calls before it having found no pool.
PoolCallRejected(in, rejects) ==
    \/ rejects = 1
    \/ /\ rejects = 2
       /\ in.poolType = "undefined"
       /\ getPool(in, FALSE) = ZeroAddress

\* What getQuote meets: whether the provider was initialized before, what
\* initialize finds, and how the calls that follow answer.
QuoteEnvOk == [isInitialized |-> FALSE, routerCode |-> "0x60", factoryCode |-> "0x60",
               defaultFactoryOk |-> TRUE, poolCallRejects |-> 0, amounts |-> "out",
               decimalsOk |-> TRUE, message |-> "none"]

\* The messages of the exceptions tried: a revert for want of liquidity, a
\* revert of another kind, and an error that is no revert.
ErrorMessages == {"execution reverted: INSUFFICIENT_LIQUIDITY",
                  "call revert exception", "timeout"}

\* error.message?.includes(text), for the two texts getQuote looks for.
MessageIncludes(message, text) ==
    \/ /\ text = "INSUFFICIENT_LIQUIDITY"
       /\ message \in {"execution reverted: INSUFFICIENT_LIQUIDITY"}
    \/ /\ text = "revert"
       /\ message \in {"execution reverted: INSUFFICIENT_LIQUIDITY",
                       "call revert exception"}

\* The catch block of getQuote: the error is chosen by the text of the
\* exception's message, whichever call threw it.
QuoteErrorOf(message) ==
    IF MessageIncludes(message, "INSUFFICIENT_LIQUIDITY")
    THEN "Insufficient liquidity in Aerodrome pool"
    ELSE IF MessageIncludes(message, "revert")
    THEN "Aerodrome router reverted"
    ELSE "Aerodrome quote error"

\* The provider initialized or not and everything in order, or one thing amiss.
QuoteEnvs ==
    {QuoteEnvOk,
     [QuoteEnvOk EXCEPT !.isInitialized = TRUE],
     [QuoteEnvOk EXCEPT !.routerCode = "0x"],
     [QuoteEnvOk EXCEPT !.factoryCode = "0x"],
     [QuoteEnvOk EXCEPT !.routerCode = "throws"],
     [QuoteEnvOk EXCEPT !.defaultFactoryOk = FALSE],
     [QuoteEnvOk EXCEPT !.poolCallRejects = 1],
     [QuoteEnvOk EXCEPT !.poolCallRejects = 2],
     [QuoteEnvOk EXCEPT !.amounts = "zero"]}
    \cup {[QuoteEnvOk EXCEPT !.amounts = "throws", !.message = message] :
              message \in ErrorMessages}
    \cup {[QuoteEnvOk EXCEPT !.decimalsOk = FALSE, !.message = message] :
              message \in ErrorMessages \ {"execution reverted: INSUFFICIENT_LIQUIDITY"}}

\* AerodromeQuoteProvider.initialize: true when router and factory have code
\* and the router answers defaultFactory.
initialize(env) ==
    \/ env.isInitialized
    \/ /\ env.routerCode \notin {"0x", "throws"}
       /\ env.factoryCode \notin {"0x", "throws"}
       /\ env.defaultFactoryOk

\* amounts[1] of routerContract.getAmountsOut(amountIn, [route])
AmountOut(in, env) == IF env.amounts = "zero" THEN 0 ELSE in.expectedAmountOut

IsZeroNever(amountOut) == FALSE

\* amountOut.isZero()
IsZero(amountOut) == amountOut = 0

QuotedPoolTypeSwapped(isStable) == IF isStable THEN "volatile" ELSE "stable"

\* route.stable ? 'stable' : 'volatile'
QuotedPoolType(isStable) == IF isStable THEN "stable" ELSE "volatile"

NoQuote == [asked |-> FALSE, env |-> QuoteEnvOk, success |-> FALSE, dstAmount |-> 0,
            error |-> "none", poolType |-> "undefined", threw |-> FALSE]

QuoteFailure(env, error) ==
    [asked |-> TRUE, env |-> env, success |-> FALSE, dstAmount |-> 0,
     error |-> error, poolType |-> "undefined", threw |-> FALSE]

SlippageAsBasisPoints(slippagePercentage) ==
    [num |-> slippagePercentage.num, den |-> slippagePercentage.den]

\* slippagePercentage * 100, the percentage being the fraction num/den.
SlippageBasisPoints(slippagePercentage) ==
    [num |-> slippagePercentage.num * 100, den |-> slippagePercentage.den]

\* expectedAmountOut.mul(10000 - slippageBasisPoints).div(10000): BigNumber
\* takes whole numbers only and rejects any other, div drops the remainder.
MinAmountOut(expectedAmountOut, slippagePercentage) ==
    LET bps == SlippageBasisPoints(slippagePercentage) IN
    IF bps.num % bps.den # 0
    THEN [thrown |-> TRUE, amount |-> 0]
    ELSE [thrown |-> FALSE,
          amount |-> (expectedAmountOut * (10000 - bps.num \div bps.den)) \div 10000]

\* AerodromeQuoteProvider.getQuote: {success: true, dstAmount, poolType} or
\* {success: false, error}; whatever is thrown inside is caught.
getQuote(in, env) ==
    IF ~initialize(env)
    THEN QuoteFailure(env, "Quote provider not available")
    ELSE LET poolInfo == poolExists(in, env.poolCallRejects) IN
         IF ~poolInfo.exists
         THEN QuoteFailure(env, "No Aerodrome pool")
         ELSE IF env.amounts = "throws"
         THEN QuoteFailure(env, QuoteErrorOf(env.message))
         ELSE IF IsZero(AmountOut(in, env))
         THEN QuoteFailure(env, "Zero output from Aerodrome router")
         ELSE IF ~env.decimalsOk
         THEN QuoteFailure(env, QuoteErrorOf(env.message))
         ELSE [asked |-> TRUE, env |-> env, success |-> TRUE,
               dstAmount |-> AmountOut(in, env), error |-> "none",
               poolType |-> QuotedPoolType(poolInfo.isStable), threw |-> FALSE]

\* The locals of a swap; currentAllowance is -1 until step 3 has read it,
\* failedStep and error are what the catch block was entered from and with.
SwapLocals == [isStable |-> FALSE, poolAddress |-> ZeroAddress, probes |-> <<>>,
               minAmountOut |-> 0, approved |-> FALSE, poolInfo |-> NoPoolInfo,
               quote |-> NoQuote, currentAllowance |-> -1,
               failedStep |-> "none", error |-> "none"]

\* currentAllowance.lt(amount)
NeedsApproval(currentAllowance, amount) == currentAllowance < amount

\* A swap that reports success however its transaction ended.
SwapSuccessAlways(state) == "ok"

\* What the caller gets once the swap transaction settled: {success: true,
\* receipt} when it was confirmed, the catch block's {success: false, error}
\* when the callback rejected.
SwapSuccess(state) == IF state = "ok" THEN "ok" ELSE "failed"

\* The arguments of swapWithAerodromeRouter that are checked before anything
\* is read: all given, or one of them missing.
SwapArgumentsOk == [routerAddress |-> "0xRouter", factoryAddress |-> "0xFactory",
                    slippageGiven |-> TRUE, parametersGiven |-> TRUE,
                    provider |-> TRUE]

SwapArguments ==
    {SwapArgumentsOk,
     [SwapArgumentsOk EXCEPT !.routerAddress = ""],
     [SwapArgumentsOk EXCEPT !.factoryAddress = ""],
     [SwapArgumentsOk EXCEPT !.slippageGiven = FALSE],
     [SwapArgumentsOk EXCEPT !.parametersGiven = FALSE],
     [SwapArgumentsOk EXCEPT !.provider = FALSE]}

\* The validation at the head of swapWithAerodromeRouter: the error thrown,
\* or "ok".
swapValidation(args) ==
    IF args.routerAddress = ""
    THEN "Aerodrome Router address must be provided via configuration"
    ELSE IF args.factoryAddress = ""
    THEN "Aerodrome Factory address must be provided via configuration"
    ELSE IF ~args.slippageGiven
    THEN "Slippage must be provided via configuration"
    ELSE IF ~args.parametersGiven
    THEN "Invalid parameters provided to swap"
    ELSE IF ~args.provider
    THEN "No provider available, skipping swap"
    ELSE "ok"

\* The reads awaited before the try block, in their order; each may reject.
SwapLookups == <<"getNetwork", "getAddress", "getTokenFromAddress(tokenAddress)",
                 "getTokenFromAddress(targetTokenAddress)">>

\* What the reads end with: the first one that rejects, or "ok".
SwapLookupOutcomes == {"ok"} \cup {SwapLookups[k] : k \in DOMAIN SwapLookups}

SetSwap(t, fields) ==
    swap' = [swap EXCEPT ![t] = [f \in DOMAIN swap[t] |->
                IF f \in DOMAIN fields THEN fields[f] ELSE swap[t][f]]]

\* swapWithAerodromeRouter up to step 2.  Before the try block the arguments
\* are validated and the network, the signer's address and the two tokens are
\* read: a failure there is thrown to the caller, the promise rejects.  Then
\* the pool is found, the router quotes the output and the minimum output is
\* computed; any failure of these ends in the catch block.
swapFindPool(t) ==
    /\ task[t].kind = "swap"
    /\ task[t].pc = "start"
    /\ \/ \E args \in SwapArguments :
             \* an argument is missing
             /\ swapValidation(args) # "ok"
             /\ SetTask(t, "done", "threw")
             /\ SetSwap(t, [error |-> swapValidation(args)])
       \/ \E lookup \in SwapLookupOutcomes :
             \* the arguments are in order, a read before the try block rejects
             /\ swapValidation(SwapArgumentsOk) = "ok"
             /\ lookup # "ok"
             /\ SetTask(t, "done", "threw")
             /\ SetSwap(t, [error |-> lookup])
       \/ \E rejects \in GetPoolCalls, amountsOk \in BOOLEAN :
             \* the arguments are in order and the reads answered
             LET pool == FindPool(swap[t], rejects)
                 min == MinAmountOut(swap[t].expectedAmountOut,
                                     swap[t].slippagePercentage)
             IN /\ swapValidation(SwapArgumentsOk) = "ok"
                /\ IF swap[t].sameToken
                   THEN \* the tokens are identical: {success: true}
                        /\ SetTask(t, "done", "ok")
                        /\ UNCHANGED swap
                   ELSE IF pool.rejected
                   THEN \* a getPool call rejects
                        /\ SetTask(t, "done", "failed")
                        /\ SetSwap(t, [probes |-> pool.probes,
                                       failedStep |-> "pool",
                                       error |-> "call revert exception"])
                   ELSE IF ~pool.found
                   THEN /\ SetTask(t, "done", "failed")
                        /\ SetSwap(t, [isStable |-> pool.isStable,
                                       poolAddress |-> pool.poolAddress,
                                       probes |-> pool.probes,
                                       failedStep |-> "pool",
                                       error |-> "No Aerodrome pool exists"])
                   ELSE IF ~amountsOk
                   THEN \* routerContract.getAmountsOut rejects
                        /\ SetTask(t, "done", "failed")
                        /\ SetSwap(t, [isStable |-> pool.isStable,
                                       poolAddress |-> pool.poolAddress,
                                       probes |-> pool.probes,
                                       failedStep |-> "quote",
                                       error |-> "call revert exception"])
                   ELSE IF min.thrown
                   THEN /\ SetTask(t, "done", "failed")
                        /\ SetSwap(t, [isStable |-> pool.isStable,
                                       poolAddress |-> pool.poolAddress,
                                       probes |-> pool.probes,
                                       failedStep |-> "quote",
                                       error |-> "invalid BigNumber value"])
                   ELSE /\ SetTask(t, "step3", "none")
                        /\ SetSwap(t, [isStable |-> pool.isStable,
                                       poolAddress |-> pool.poolAddress,
                                       probes |-> pool.probes,
                                       minAmountOut |-> min.amount])
    /\ UNCHANGED <<seqVars, dryRun, chainVars, kickVars, priceVars, settleVars, laterVars,
                   routerAllowance>>

\* The quote provider is asked whether a pool exists for the pair.
quoteProviderPoolExists(t) ==
    /\ task[t].kind = "swap"
    /\ ~swap[t].poolInfo.asked
    /\ \E rejects \in GetPoolCalls :
          SetSwap(t, [poolInfo |-> poolExists(swap[t], rejects)])
    /\ UNCHANGED <<seqVars, taskVars, chainVars, kickVars, priceVars, settleVars, laterVars,
                   routerAllowance>>

\* Before the swap the quote provider is asked for a quote of the same pair.
quoteProviderGetQuote(t) ==
    /\ task[t].kind = "swap"
    /\ task[t].pc = "start"
    /\ ~swap[t].quote.asked
    /\ \E env \in QuoteEnvs : SetSwap(t, [quote |-> getQuote(swap[t], env)])
    /\ UNCHANGED <<seqVars, taskVars, chainVars, kickVars, priceVars, settleVars, laterVars,
                   routerAllowance>>

\* swapWithAerodromeRouter, step 3, the read: tokenContract.allowance is
\* answered with the allowance of that moment, or rejects.
swapReadAllowance(t) ==
    /\ task[t].kind = "swap"
    /\ task[t].pc = "step3"
    /\ \E allowanceOk \in BOOLEAN :
          IF ~allowanceOk
          THEN \* tokenContract.allowance throws
               /\ SetTask(t, "done", "failed")
               /\ SetSwap(t, [failedStep |-> "approval",
                              error |-> "call revert exception"])
          ELSE /\ SetTask(t, "allowanceRead", "none")
               /\ SetSwap(t, [currentAllowance |-> routerAllowance[SignerOf(t)]])
    /\ UNCHANGED <<seqVars, dryRun, chainVars, kickVars, priceVars, settleVars, laterVars,
                   routerAllowance>>

\* Step 3 once the call resumes with the allowance it read: the approval is
\* queued when that allowance is below the amount, whatever the allowance has
\* become since.
swapApproveRouter(t) ==
    /\ task[t].kind = "swap"
    /\ task[t].pc = "allowanceRead"
    /\ IF NeedsApproval(swap[t].currentAllowance, swap[t].amount)
       THEN /\ QueueTransaction(t, "approveRouter", 0)
            /\ SetTask(t, "awaitApprove", "none")
       ELSE /\ SetTask(t, "step4", "none")
            /\ UNCHANGED <<queue, op, nextId>>
    /\ UNCHANGED <<nonceCache, chainNonce, pendingTx, handed, broadcasts, timedOut>>
    /\ UNCHANGED <<dryRun, chainVars, kickVars, priceVars, settleVars, laterVars,
                   swapVars>>

\* The approval settled: the router may spend MaxUint256 and step 4 follows,
\* or the catch block is entered.
swapApproveReturn(t) ==
    /\ task[t].kind = "swap"
    /\ task[t].pc = "awaitApprove"
    /\ Settled(t)
    /\ IF op[t].state = "ok"
       THEN /\ SetTask(t, "step4", "none")
            /\ routerAllowance' = [routerAllowance EXCEPT ![SignerOf(t)] = MaxUint256]
            /\ SetSwap(t, [approved |-> TRUE])
       ELSE /\ SetTask(t, "done", "failed")
            /\ SetSwap(t, [failedStep |-> "approval", error |-> op[t].error])
            /\ UNCHANGED routerAllowance
    /\ TakeResult(t)
    /\ UNCHANGED <<nonceCache, queue, nextId, chainNonce, pendingTx, handed,
                   broadcasts, timedOut>>
    /\ UNCHANGED <<dryRun, chainVars, kickVars, priceVars, settleVars, laterVars>>

\* Step 4: the gas price is read and the swap queued.
swapExecute(t) ==
    /\ task[t].kind = "swap"
    /\ task[t].pc = "step4"
    /\ \E gasPriceOk \in BOOLEAN :
          IF gasPriceOk
          THEN /\ QueueTransaction(t, "swap", 0)
               /\ SetTask(t, "awaitSwap", "none")
               /\ UNCHANGED swap
          ELSE \* provider.getGasPrice throws
               /\ SetTask(t, "done", "failed")
               /\ SetSwap(t, [failedStep |-> "submission",
                              error |-> "could not detect network"])
               /\ UNCHANGED <<queue, op, nextId>>
    /\ UNCHANGED <<nonceCache, chainNonce, pendingTx, handed, broadcasts, timedOut>>
    /\ UNCHANGED <<dryRun, chainVars, kickVars, priceVars, settleVars, laterVars,
                   routerAllowance>>

\* The swap settled: {success: true, receipt}, the router having drawn the
\* amount from its allowance, or {success: false, error}.
swapReturn(t) ==
    /\ task[t].kind = "swap"
    /\ task[t].pc = "awaitSwap"
    /\ Settled(t)
    /\ SetTask(t, "done", SwapSuccess(op[t].state))
    /\ SetSwap(t, [failedStep |-> IF op[t].state = "ok" THEN "none"
                                  ELSE IF op[t].error \in {"send", "nonce"}
                                  THEN "submission" ELSE "confirmation",
                   error |-> op[t].error])
    /\ routerAllowance' =
          IF op[t].state = "ok"
          THEN [routerAllowance EXCEPT ![SignerOf(t)] = @ - swap[t].amount]
          ELSE routerAllowance
    /\ TakeResult(t)
    /\ UNCHANGED <<nonceCache, queue, nextId, chainNonce, pendingTx, handed,
                   broadcasts, timedOut>>
    /\ UNCHANGED <<dryRun, chainVars, kickVars, priceVars, settleVars, laterVars>>

(***************************************************************************)
(* The sequencer under concurrent callers                                  *)
(***************************************************************************)


NoLoan == [borrower |-> 0, liquidationBond |-> 0, estimatedRemainingBond |-> 0,
           limitPrice |-> 0]

InitSequencer ==
    /\ nonceCache = [s \in Signers |-> <<>>]
    /\ queue = [s \in Signers |-> <<>>]
    /\ op = [t \in Tasks |-> NoOp]
    /\ nextId = [s \in Signers |-> 1]
    /\ chainNonce = [s \in Signers |-> StartNonce(s)]
    /\ pendingTx = [s \in Signers |-> {}]
    /\ handed = [s \in Signers |-> <<>>]
    /\ broadcasts = [s \in Signers |-> <<>>]
    /\ timedOut = [s \in Signers |-> {}]

NoBatch ==
    /\ loans = <<>>
    /\ balance = 0
    /\ allowance = 0
    /\ quoteDecimals = 18
    /\ kpc = "idle"
    /\ loanMap = <<>>
    /\ borrowersSortedByBond = <<>>
    /\ i = 0
    /\ loanToKick = NoLoan
    /\ examined = <<>>
    /\ approvals = <<>>
    /\ kicks = <<>>
    /\ granted = FALSE

\* Nothing has been asked of the price services.
NoResult == [value |-> [t |-> "none", num |-> 0, den |-> 1], calls |-> <<>>]

NoPrice ==
    /\ priceIn = <<>>
    /\ priceOut = NoResult

\* config.defaultSlippage: 0.5 (percent).
DefaultSlippage == [num |-> 1, den |-> 2]

\* A swap of 100 for a quoted 1000, the pool type left to detection, only the
\* volatile pool existing.
DefaultSwap ==
    [poolType |-> "undefined", volatilePool |-> "0xVolatile", stablePool |-> ZeroAddress,
     amount |-> 100, expectedAmountOut |-> 1000,
     slippagePercentage |-> DefaultSlippage, sameToken |-> FALSE] @@ SwapLocals

NoSwap ==
    /\ swap = [t \in Tasks |-> DefaultSwap]
    /\ routerAllowance = [s \in Signers |-> 0]

\* An auction with nothing left to settle, and the engine at rest.
NoAuction == [collateralRemaining |-> 0, debtRemaining |-> 0, age |-> 0,
              settled |-> TRUE]

NoSettlement == [minAuctionAge |-> 0, maxIterations |-> 0, incentive |-> TRUE,
                 pc |-> "idle", attempt |-> 0, iteration |-> 0, skipped |-> "none",
                 calls |-> {}]

NoSettle ==
    /\ auction = NoAuction
    /\ settle = NoSettlement

\* The lower-case addresses the cache is keyed by.
PoolIds == {"0xa", "0xb"}

NoSnapCall == [pc |-> "idle", addresses |-> <<>>, awaiting |-> 0, settled |-> "none",
               result |-> {}]

NoSnapshots ==
    /\ snapshotCache = [id \in PoolIds |-> "none"]
    /\ inFlight = 0
    /\ snapCall = [t \in Tasks |-> NoSnapCall]

NoBondCollection ==
    /\ kickerInfo = [claimable |-> 0, locked |-> 0]
    /\ liquidations = [a \in {} |-> 0]
    /\ bondCalls = <<>>

NoLpCollector ==
    /\ lpMap = [index \in {} |-> 0]
    /\ subscribed = FALSE
    /\ lpEvents = <<>>

NoRewards == NoBondCollection /\ NoLpCollector

\* Nothing read, estimated or asked about the pool's interest.
NoInterestRead == [read |-> "none", timeSinceUpdate |-> 0, gas |-> "none",
                   isStale |-> "unknown"]

NoInterest == interest = [t \in Tasks |-> NoInterestRead]

\* The contract as its constructor leaves it: it holds nothing, has approved
\* nothing, and has not been called.
NoCall == [fn |-> "none", sender |-> "none", outcome |-> "none",
           approved |-> 0, swapped |-> 0, paid |-> 0,
           collateral |-> 0, pulled |-> 0, router |-> "none"]

TakerDeployed == [balance |-> [token \in {"quote", "collateral"} |-> 0],
                  ownerBalance |-> [token \in {"quote", "collateral"} |-> 0],
                  poolAllowance |-> 0,
                  routerAllowance |->
                      [router \in {"aerodromeRouter", "otherRouter"} |-> 0],
                  calls |-> 0,
                  last |-> NoCall]

NoTaker == taker = TakerDeployed

NoLater == NoSnapshots /\ NoRewards /\ NoInterest /\ NoTaker

\* The parts of the keeper a specification leaves at rest.
NoExt == NoPrice /\ NoSwap /\ NoSettle /\ NoLater

CallerKinds == {"approveErc20", "transferErc20", "updateInterest", "swap"}

KindRank(kind) ==
    CASE kind = "approveErc20" -> 0
      [] kind = "transferErc20" -> 1
      [] kind = "updateInterest" -> 2
      [] OTHER -> 3

TaskRank(r) == 2 * KindRank(r.kind) + (IF r.signer = "s1" THEN 0 ELSE 1)

InitNonce ==
    /\ InitSequencer
    /\ NoBatch
    /\ NoPrice
    /\ NoSettle
    /\ NoLater
    /\ swap = [t \in Tasks |-> DefaultSwap]
    \* The first signer has yet to approve the router, the second has.
    /\ routerAllowance = [s \in Signers |-> IF s = "s1" THEN 0 ELSE MaxUint256]
    \* Transactions are sent: in a dry run no operation reaches the queue.
    /\ dryRun = FALSE
    /\ task \in [Tasks -> [kind : CallerKinds, signer : Signers, pc : {"start"},
                           result : {"none"}]]
    \* Tasks are interchangeable: one representative of each assignment.
    /\ \A t \in Tasks : t + 1 \in Tasks => TaskRank(task[t]) <= TaskRank(task[t + 1])

NextNonce ==
    \/ \E s \in Signers : HandNonce(s)
    \/ \E t \in Tasks : NonceMismatch(t)
    \/ \E t \in Tasks : BroadcastTx(t)
    \/ \E t \in Tasks : BroadcastFail(t)
    \/ \E t \in Tasks : Confirm(t)
    \/ \E t \in Tasks : Revert(t)
    \/ \E t \in Tasks : Timeout(t)
    \/ \E s \in Signers : Mine(s)
    \/ \E t \in Tasks : approveErc20(t)
    \/ \E t \in Tasks : transferErc20(t)
    \/ \E t \in Tasks : erc20Return(t)
    \/ \E t \in Tasks : updatePoolInterestIfStale(t)
    \/ \E t \in Tasks : updatePoolInterestReturn(t)
    \/ \E t \in Tasks : swapFindPool(t)
    \/ \E t \in Tasks : swapReadAllowance(t)
    \/ \E t \in Tasks : swapApproveRouter(t)
    \/ \E t \in Tasks : swapApproveReturn(t)
    \/ \E t \in Tasks : swapExecute(t)
    \/ \E t \in Tasks : swapReturn(t)

SpecNonce == InitNonce /\ [][NextNonce]_vars

(***************************************************************************)
(* The interest updates of one signer, and what isInterestStale says of    *)
(* the same pools.                                                         *)
(***************************************************************************)

InitInterest ==
    /\ InitSequencer
    /\ NoBatch
    /\ NoExt
    /\ dryRun \in BOOLEAN
    /\ task = [t \in Tasks |-> [kind |-> "updateInterest", signer |-> "s1",
                                pc |-> "start", result |-> "none"]]

NextInterest ==
    \/ \E t \in Tasks : updatePoolInterestIfStale(t)
    \/ \E t \in Tasks : updatePoolInterestReturn(t)
    \/ \E t \in Tasks : isInterestStale(t)
    \/ \E s \in Signers : HandNonce(s)
    \/ \E t \in Tasks : BroadcastTx(t)
    \/ \E t \in Tasks : BroadcastFail(t)
    \/ \E t \in Tasks : Confirm(t)
    \/ \E t \in Tasks : Revert(t)

SpecInterest == InitInterest /\ [][NextInterest]_vars

(***************************************************************************)
(* The sequencer while the signers also send transactions of their own.    *)
(***************************************************************************)

InitRetry ==
    /\ InitSequencer
    /\ NoBatch
    /\ NoExt
    /\ dryRun = FALSE
    \* The operations of one signer, an approval and the transfers after it:
    \* retries concern each signer's queue alone, whatever the operations do.
    /\ task = [t \in Tasks |->
                 [kind |-> IF t = 1 THEN "approveErc20" ELSE "transferErc20",
                  signer |-> "s1", pc |-> "start", result |-> "none"]]

\* resetHardhat, before each test: the fork goes back to its block and
\* NonceTracker.clearNonces() empties the cache; the operations of the test
\* before have all returned, and the next test starts its own.
resetHardhat ==
    /\ \A t \in Tasks : task[t].pc = "done"
    /\ nonceCache' = [s \in Signers |-> <<>>]
    /\ chainNonce' = [s \in Signers |-> StartNonce(s)]
    /\ pendingTx' = [s \in Signers |-> {}]
    /\ op' = [t \in Tasks |-> NoOp]
    /\ nextId' = [s \in Signers |-> 1]
    /\ handed' = [s \in Signers |-> <<>>]
    /\ broadcasts' = [s \in Signers |-> <<>>]
    /\ UNCHANGED <<queue, timedOut>>
    /\ task' = [t \in Tasks |-> [task[t] EXCEPT !.pc = "start", !.result = "none"]]
    /\ UNCHANGED <<dryRun, chainVars, kickVars, extVars>>

NextRetry ==
    \/ \E s \in Signers : HandNonce(s)
    \/ \E t \in Tasks : NonceMismatch(t)
    \/ \E t \in Tasks : BroadcastTx(t)
    \/ \E t \in Tasks : BroadcastFail(t)
    \/ \E t \in Tasks : Confirm(t)
    \/ \E t \in Tasks : Revert(t)
    \/ \E s \in {SignerOf(t) : t \in Tasks} : OutOfBandTx(s)
    \/ \E s \in {SignerOf(t) : t \in Tasks} : NonceTrackerGetNonce(s)
    \/ resetHardhat
    \/ \E t \in Tasks : approveErc20(t)
    \/ \E t \in Tasks : transferErc20(t)
    \/ \E t \in Tasks : erc20Return(t)

SpecRetry == InitRetry /\ [][NextRetry]_vars

(***************************************************************************)
(* The kick engine: handleKicks, getLoansToKick, kick,                     *)
(* approveBalanceForLoanToKick, clearAllowances                            *)
(***************************************************************************)

\* Largest number of loans the subgraph returns for the pool.
MaxLoans == 2

\* LIQUIDATION_BOND_MARGIN = 0.01, in percent.
LIQUIDATION_BOND_MARGIN == 1

\* poolConfig.kick.minDebt and poolConfig.kick.priceFactor (0.95, in percent).
MinDebt == 50
PriceFactor == 95

\* What pool.getPrices() and getPrice() deliver during the batch.
Lups == {100}
LimitPrices == {133}
Lup == CHOOSE p \in Lups : TRUE
LimitPrice == CHOOSE p \in LimitPrices : TRUE

\* The loan fields tried: each filter just failing and just passing.  The
\* neutral price 1.40 times 0.95 is the price 1.33 and the product of the
\* doubles is 1.3299999999999998; 1.41 passes.
ThresholdPrices == {90, 100}
Debts == {40, 50}
NeutralPrices == {140, 141}
Bonds == {100, 200}
BondsLater == {100, 200, 300}
Balances == {50, 250, 300, 1000}
Allowances == {0, 150}

\* The decimals of the quote token tried: those of WAD, and 6 as USDC has.
QuoteDecimals == {6, 18}

\* The task that runs handleKicks.
KickTask == CHOOSE t \in Tasks : \A u \in Tasks : t <= u

CompareBondsAscending(bondA, bondB) == bondA - bondB

\* The sort comparator: bondB - bondA.
CompareBonds(bondA, bondB) == bondB - bondA

\* Array.prototype.sort is stable: a borrower goes behind every borrower the
\* comparator does not put after it.
RECURSIVE InsertByBond(_, _, _)
InsertByBond(borrower, sorted, bondOf) ==
    IF sorted = <<>>
    THEN <<borrower>>
    ELSE IF CompareBonds(bondOf[Head(sorted)], bondOf[borrower]) <= 0
         THEN <<Head(sorted)>> \o InsertByBond(borrower, Tail(sorted), bondOf)
         ELSE <<borrower>> \o sorted

RECURSIVE SortByBond(_, _)
SortByBond(n, bondOf) ==
    IF n = 0 THEN <<>> ELSE InsertByBond(n, SortByBond(n - 1, bondOf), bondOf)

\* getSumEstimatedBond: the loan map's bonds of the borrowers given, summed.
RECURSIVE getSumEstimatedBond(_, _)
getSumEstimatedBond(borrowers, bondOf) ==
    IF borrowers = <<>>
    THEN 0
    ELSE bondOf[Head(borrowers)] + getSumEstimatedBond(Tail(borrowers), bondOf)

EstimatedRemainingBondFromI(liquidationBond, sorted, k, bondOf) ==
    liquidationBond + getSumEstimatedBond(SubSeq(sorted, k, Len(sorted)), bondOf)

EstimatedRemainingBondOwnOnly(liquidationBond, sorted, k, bondOf) ==
    liquidationBond

\* liquidationBond.add(getSumEstimatedBond(borrowersSortedByBond.slice(i + 1)));
\* k is the 1-based position of the borrower.
EstimatedRemainingBond(liquidationBond, sorted, k, bondOf) ==
    liquidationBond + getSumEstimatedBond(SubSeq(sorted, k + 1, Len(sorted)), bondOf)

TpBelowLupOrEqual(thresholdPrice, lup) == thresholdPrice <= lup

\* thresholdPrice.lt(lup)
TpBelowLup(thresholdPrice, lup) == thresholdPrice < lup

\* weiToDecimaled(debt) < poolConfig.kick.minDebt
DebtTooLow(debt) == debt < MinDebt

(***************************************************************************)
(* JavaScript numbers.  The price filter multiplies and compares doubles,  *)
(* so it is computed here as IEEE 754 does: a number is a mantissa of at   *)
(* most 53 bits and a binary exponent, a decimal is converted to the       *)
(* nearest double and a product is rounded to nearest, ties to even.  The  *)
(* mantissas exceed 32-bit integers and are kept as sequences              *)
(* of limbs, least significant first, without leading zero limbs.          *)
(***************************************************************************)

Limb == 2 ^ 15
MantissaBits == 52 + 1

RECURSIVE BigNorm(_)
BigNorm(a) ==
    IF a = <<>> THEN <<>>
    ELSE IF a[Len(a)] = 0 THEN BigNorm(SubSeq(a, 1, Len(a) - 1))
    ELSE a

RECURSIVE BigOfInt(_)
BigOfInt(n) == IF n = 0 THEN <<>> ELSE <<n % Limb>> \o BigOfInt(n \div Limb)

RECURSIVE IntBitLen(_)
IntBitLen(n) == IF n = 0 THEN 0 ELSE 1 + IntBitLen(n \div 2)

BigBitLen(a) ==
    IF a = <<>> THEN 0 ELSE 15 * (Len(a) - 1) + IntBitLen(a[Len(a)])

BigIsOdd(a) == a # <<>> /\ a[1] % 2 = 1

\* a * small + carry, small below a limb.
RECURSIVE BigMulSmall(_, _, _)
BigMulSmall(a, small, carry) ==
    IF a = <<>>
    THEN BigOfInt(carry)
    ELSE LET p == Head(a) * small + carry
         IN <<p % Limb>> \o BigMulSmall(Tail(a), small, p \div Limb)

RECURSIVE BigAdd(_, _, _)
BigAdd(a, b, carry) ==
    IF a = <<>> /\ b = <<>>
    THEN BigOfInt(carry)
    ELSE LET x == IF a = <<>> THEN 0 ELSE Head(a)
             y == IF b = <<>> THEN 0 ELSE Head(b)
             sum == x + y + carry
         IN <<sum % Limb>> \o BigAdd(IF a = <<>> THEN <<>> ELSE Tail(a),
                                      IF b = <<>> THEN <<>> ELSE Tail(b),
                                      sum \div Limb)

RECURSIVE BigMul(_, _)
BigMul(a, b) ==
    IF a = <<>> \/ b = <<>>
    THEN <<>>
    ELSE BigNorm(BigAdd(BigMulSmall(b, Head(a), 0), <<0>> \o BigMul(Tail(a), b), 0))

\* Quotient and remainder of a by small, small below a limb.
RECURSIVE BigDivSmall(_, _)
BigDivSmall(a, small) ==
    IF a = <<>>
    THEN [q |-> <<>>, r |-> 0]
    ELSE LET high == BigDivSmall(Tail(a), small)
             cur == high.r * Limb + Head(a)
         IN [q |-> <<cur \div small>> \o high.q, r |-> cur % small]

\* a * 2^k
BigShiftLeft(a, k) ==
    IF a = <<>> THEN <<>>
    ELSE BigNorm([j \in 1 .. k \div 15 |-> 0] \o BigMulSmall(a, 2 ^ (k % 15), 0))

\* a \div 2^k
BigShiftRight(a, k) ==
    IF Len(a) <= k \div 15 THEN <<>>
    ELSE BigNorm(BigDivSmall(SubSeq(a, k \div 15 + 1, Len(a)), 2 ^ (k % 15)).q)

RECURSIVE BigLessFrom(_, _, _)
BigLessFrom(a, b, k) ==
    IF k = 0 THEN FALSE
    ELSE IF a[k] # b[k] THEN a[k] < b[k]
    ELSE BigLessFrom(a, b, k - 1)

BigLess(a, b) ==
    IF Len(a) # Len(b) THEN Len(a) < Len(b) ELSE BigLessFrom(a, b, Len(a))

\* The shift s for which num * 2^s \div den has MantissaBits bits.
RECURSIVE MantissaShift(_, _, _)
MantissaShift(num, den, s) ==
    LET bits == BigBitLen(BigNorm(BigDivSmall(BigShiftLeft(BigOfInt(num), s), den).q))
    IN IF bits > MantissaBits THEN MantissaShift(num, den, s - 1)
       ELSE IF bits < MantissaBits THEN MantissaShift(num, den, s + 1)
       ELSE s

\* The double nearest to num/den, as a decimal literal or parseFloat gives
\* it: mantissa m and exponent e, the value m * 2^e.
DoubleOf(num, den) ==
    IF num = 0
    THEN [m |-> <<>>, e |-> 0]
    ELSE LET s == MantissaShift(num, den,
                                MantissaBits - IntBitLen(num) + IntBitLen(den))
             d == BigDivSmall(BigShiftLeft(BigOfInt(num), s), den)
             q == BigNorm(d.q)
             up == 2 * d.r > den \/ (2 * d.r = den /\ BigIsOdd(q))
         IN [m |-> IF up THEN BigNorm(BigAdd(q, <<1>>, 0)) ELSE q, e |-> 0 - s]

\* a * b of two doubles: the exact product rounded to MantissaBits bits,
\* to nearest and, half way, to the even mantissa.
DoubleMul(a, b) ==
    LET p == BigMul(a.m, b.m)
        drop == BigBitLen(p) - MantissaBits
    IN IF drop <= 0
       THEN [m |-> p, e |-> a.e + b.e]
       ELSE LET t == BigShiftRight(p, drop - 1)
                q == BigShiftRight(t, 1)
                sticky == BigShiftLeft(t, drop - 1) # p
                up == BigIsOdd(t) /\ (sticky \/ BigIsOdd(q))
            IN [m |-> IF up THEN BigNorm(BigAdd(q, <<1>>, 0)) ELSE q,
                e |-> a.e + b.e + drop]

\* a < b of two doubles.
DoubleLess(a, b) ==
    LET e == IF a.e < b.e THEN a.e ELSE b.e
    IN BigLess(BigShiftLeft(a.m, a.e - e), BigShiftLeft(b.m, b.e - e))

\* weiToDecimaled(neutralPrice) * poolConfig.kick.priceFactor < limitPrice,
\* the three of them doubles; the prices are given in hundredths.
NotProfitable(neutralPrice, limitPrice) ==
    DoubleLess(DoubleMul(DoubleOf(neutralPrice, 100), DoubleOf(PriceFactor, 100)),
               DoubleOf(limitPrice, 100))

\* balanceWad.lt(liquidationBond)
InsufficientBalance(balanceWad, liquidationBond) == balanceWad < liquidationBond

\* amount \div 10^digits
RECURSIVE ScaledDown(_, _)
ScaledDown(amount, digits) ==
    IF digits = 0 THEN amount ELSE ScaledDown(amount \div 10, digits - 1)

\* allowance.lt(liquidationBond): the allowance is the number the token
\* returns, in the token's own decimals, the bond is in WAD; the balance
\* alone was converted.  In tokens: allowance * 10^decimals < bond * 10^18.
AllowanceBelowBond(allowanceNative, decimals, liquidationBond) ==
    ScaledDown(allowanceNative, 18 - decimals) < liquidationBond

AmountToApproveMin(estimatedRemainingBond, balanceWad, liquidationBond) ==
    IF estimatedRemainingBond < balanceWad THEN estimatedRemainingBond ELSE balanceWad

\* estimatedRemainingBond.lt(balanceWad) ? estimatedRemainingBond : liquidationBond
AmountToApprove(estimatedRemainingBond, balanceWad, liquidationBond) ==
    IF estimatedRemainingBond < balanceWad THEN estimatedRemainingBond
    ELSE liquidationBond

AmountWithoutBond(amountToApprove) ==
    (amountToApprove * LIQUIDATION_BOND_MARGIN) \div 100

\* amountToApprove.add(decimaledToWei(weiToDecimaled(amountToApprove) * margin))
AmountWithMargin(amountToApprove) ==
    amountToApprove + (amountToApprove * LIQUIDATION_BOND_MARGIN) \div 100

Borrowers == 1 .. Len(loans)

\* handleKicks rejects: what follows in it, clearAllowances included, is not run.
Throw == kpc' = "threw"

\* getLoansToKick up to its loop: the loans are fetched and sorted by bond.
getLoansToKickFetch ==
    /\ kpc = "start"
    /\ \E fetchOk \in BOOLEAN :
          IF fetchOk
          THEN LET bondOf == [b \in Borrowers |-> loans[b].liquidationBond] IN
               /\ loanMap' = bondOf
               /\ borrowersSortedByBond' = SortByBond(Len(loans), bondOf)
               /\ i' = 1
               /\ kpc' = "scan"
          ELSE /\ Throw
               /\ UNCHANGED <<loanMap, borrowersSortedByBond, i>>
    /\ UNCHANGED <<loanToKick, examined, approvals, kicks, granted>>
    /\ UNCHANGED <<seqVars, taskVars, chainVars, extVars>>

\* One iteration of the generator's loop, up to its continue or its yield; past
\* the last borrower the generator returns and handleKicks clears the allowance.
getLoansToKickNext ==
    /\ kpc = "scan"
    /\ IF i > Len(borrowersSortedByBond)
       THEN /\ kpc' = "clear"
            /\ UNCHANGED <<i, loanToKick, examined>>
       ELSE \E readOk \in BOOLEAN, priceOk \in BOOLEAN :
            LET borrower == borrowersSortedByBond[i]
                loan == loans[borrower]
                estimatedRemainingBond ==
                    EstimatedRemainingBond(loan.liquidationBond,
                                           borrowersSortedByBond, i, loanMap)
                seen == [borrower |-> borrower,
                         thresholdPrice |-> loan.thresholdPrice,
                         debt |-> loan.debt,
                         neutralPrice |-> loan.neutralPrice,
                         liquidationBond |-> loan.liquidationBond,
                         estimatedRemainingBond |-> estimatedRemainingBond,
                         index |-> i,
                         lup |-> Lup,
                         limitPrice |-> 0,
                         yielded |-> FALSE]
            IN IF ~readOk
               THEN /\ Throw
                    /\ UNCHANGED <<i, loanToKick, examined>>
               ELSE IF TpBelowLup(loan.thresholdPrice, Lup) \/ DebtTooLow(loan.debt)
               THEN /\ examined' = Append(examined, seen)
                    /\ i' = i + 1
                    /\ UNCHANGED <<kpc, loanToKick>>
               ELSE IF ~priceOk
               THEN /\ Throw
                    /\ UNCHANGED <<i, loanToKick, examined>>
               ELSE IF NotProfitable(loan.neutralPrice, LimitPrice)
               THEN /\ examined' =
                        Append(examined, [seen EXCEPT !.limitPrice = LimitPrice])
                    /\ i' = i + 1
                    /\ UNCHANGED <<kpc, loanToKick>>
               ELSE /\ examined' =
                        Append(examined, [seen EXCEPT !.limitPrice = LimitPrice,
                                                      !.yielded = TRUE])
                    /\ loanToKick' =
                        [borrower |-> borrower,
                         liquidationBond |-> loan.liquidationBond,
                         estimatedRemainingBond |-> estimatedRemainingBond,
                         limitPrice |-> LimitPrice]
                    /\ kpc' = "kick"
                    /\ UNCHANGED i
    /\ UNCHANGED <<loanMap, borrowersSortedByBond, approvals, kicks, granted>>
    /\ UNCHANGED <<seqVars, taskVars, chainVars, extVars>>

\* Between pool.getLoans and pool.getLoan the bond of a loan not yet examined
\* changes on the chain.
BondChanges ==
    /\ kpc = "scan"
    /\ \E k \in i .. Len(borrowersSortedByBond), bond \in BondsLater :
          LET b == borrowersSortedByBond[k] IN
          /\ loans[b].liquidationBond = loanMap[b]
          /\ bond # loanMap[b]
          /\ loans' = [loans EXCEPT ![b].liquidationBond = bond]
    /\ UNCHANGED <<balance, allowance, quoteDecimals>>
    /\ UNCHANGED <<seqVars, taskVars, kickVars, extVars>>

ResumeSameCandidate ==
    /\ kpc' = "scan"
    /\ i' = i

\* The for-await loop takes the next candidate after kick and the delay.
Resume ==
    /\ kpc' = "scan"
    /\ i' = i + 1

KickEntry(outcome, balanceSeen) ==
    [borrower |-> loanToKick.borrower, liquidationBond |-> loanToKick.liquidationBond,
     balance |-> balanceSeen, allowance |-> allowance, outcome |-> outcome]

\* kick up to its first queued transaction: the dry-run return, the balance
\* and allowance checks of approveBalanceForLoanToKick, then the approval or,
\* with the allowance sufficient, the kick itself.
kick ==
    /\ kpc = "kick"
    /\ IF dryRun
       THEN /\ kicks' = Append(kicks, KickEntry("dryRun", balance))
            /\ Resume
            /\ UNCHANGED <<approvals, queue, op, nextId>>
       ELSE \E readOk \in BOOLEAN :
            IF ~readOk
            THEN /\ kicks' = Append(kicks, KickEntry("error", balance))
                 /\ Resume
                 /\ UNCHANGED <<approvals, queue, op, nextId>>
            ELSE IF InsufficientBalance(balance, loanToKick.liquidationBond)
            THEN /\ kicks' = Append(kicks, KickEntry("noBalance", balance))
                 /\ Resume
                 /\ UNCHANGED <<approvals, queue, op, nextId>>
            ELSE IF AllowanceBelowBond(allowance, quoteDecimals,
                                       loanToKick.liquidationBond)
            THEN LET amountToApprove ==
                         AmountToApprove(loanToKick.estimatedRemainingBond, balance,
                                         loanToKick.liquidationBond)
                 IN /\ approvals' = Append(approvals,
                          [borrower |-> loanToKick.borrower,
                           liquidationBond |-> loanToKick.liquidationBond,
                           estimatedRemainingBond |-> loanToKick.estimatedRemainingBond,
                           balance |-> balance,
                           amount |-> AmountWithMargin(amountToApprove),
                           result |-> "pending"])
                    /\ QueueTransaction(KickTask, "quoteApprove", loanToKick.borrower)
                    /\ kpc' = "awaitApprove"
                    /\ UNCHANGED <<kicks, i>>
            ELSE /\ QueueTransaction(KickTask, "kick", loanToKick.borrower)
                 /\ kicks' = Append(kicks, KickEntry("pending", balance))
                 /\ kpc' = "awaitKick"
                 /\ UNCHANGED <<approvals, i>>
    /\ UNCHANGED <<loanMap, borrowersSortedByBond, loanToKick, examined, granted>>
    /\ UNCHANGED <<nonceCache, chainNonce, pendingTx, handed, broadcasts, timedOut>>
    /\ UNCHANGED <<taskVars, chainVars, extVars>>

LastApproval == approvals[Len(approvals)]

\* poolQuoteApprove settled: with the bond approved kick goes on to poolKick,
\* otherwise it logs and returns.
kickApproved ==
    /\ kpc = "awaitApprove"
    /\ Settled(KickTask)
    /\ approvals' = [approvals EXCEPT ![Len(approvals)].result = op[KickTask].state]
    /\ IF op[KickTask].state = "ok"
       THEN /\ allowance' = LastApproval.amount
            /\ granted' = (granted \/ LastApproval.amount > 0)
            /\ QueueTransaction(KickTask, "kick", loanToKick.borrower)
            /\ kicks' = Append(kicks, KickEntry("pending", LastApproval.balance))
            /\ kpc' = "awaitKick"
            /\ UNCHANGED i
       ELSE /\ kicks' = Append(kicks, KickEntry("approveFailed", LastApproval.balance))
            /\ TakeResult(KickTask)
            /\ Resume
            /\ UNCHANGED <<allowance, granted, queue, nextId>>
    /\ UNCHANGED <<loanMap, borrowersSortedByBond, loanToKick, examined>>
    /\ UNCHANGED <<nonceCache, chainNonce, pendingTx, handed, broadcasts, timedOut>>
    /\ UNCHANGED <<taskVars, loans, balance, quoteDecimals, extVars>>

\* poolKick settled: confirmed (the pool has pulled the bond) or failed and logged.
kickSettled ==
    /\ kpc = "awaitKick"
    /\ Settled(KickTask)
    /\ IF op[KickTask].state = "ok"
       THEN /\ kicks' = [kicks EXCEPT ![Len(kicks)].outcome = "kicked"]
            /\ balance' = balance - loanToKick.liquidationBond
            /\ allowance' = allowance - loanToKick.liquidationBond
       ELSE /\ kicks' = [kicks EXCEPT ![Len(kicks)].outcome = "kickFailed"]
            /\ UNCHANGED <<balance, allowance>>
    /\ TakeResult(KickTask)
    /\ Resume
    /\ UNCHANGED <<loanMap, borrowersSortedByBond, loanToKick, examined, approvals,
                   granted>>
    /\ UNCHANGED <<nonceCache, queue, nextId, chainNonce, pendingTx, handed,
                   broadcasts, timedOut>>
    /\ UNCHANGED <<taskVars, loans, quoteDecimals, extVars>>

\* clearAllowances: a positive allowance is set to zero.
clearAllowances ==
    /\ kpc = "clear"
    /\ \E readOk \in BOOLEAN :
          IF ~readOk
          THEN /\ Throw
               /\ UNCHANGED <<queue, op, nextId>>
          ELSE IF allowance > 0
          THEN /\ QueueTransaction(KickTask, "quoteApproveZero", 0)
               /\ kpc' = "awaitClear"
          ELSE /\ kpc' = "done"
               /\ UNCHANGED <<queue, op, nextId>>
    /\ UNCHANGED <<loanMap, borrowersSortedByBond, i, loanToKick, examined, approvals,
                   kicks, granted>>
    /\ UNCHANGED <<nonceCache, chainNonce, pendingTx, handed, broadcasts, timedOut>>
    /\ UNCHANGED <<taskVars, chainVars, extVars>>

\* The clearing approval settled: cleared, or the failure logged.
clearAllowancesSettled ==
    /\ kpc = "awaitClear"
    /\ Settled(KickTask)
    /\ allowance' = IF op[KickTask].state = "ok" THEN 0 ELSE allowance
    /\ TakeResult(KickTask)
    /\ kpc' = "done"
    /\ UNCHANGED <<loanMap, borrowersSortedByBond, i, loanToKick, examined, approvals,
                   kicks, granted>>
    /\ UNCHANGED <<nonceCache, queue, nextId, chainNonce, pendingTx, handed,
                   broadcasts, timedOut>>
    /\ UNCHANGED <<taskVars, loans, balance, quoteDecimals, extVars>>

LoanRecords ==
    [thresholdPrice : ThresholdPrices, debt : Debts, neutralPrice : NeutralPrices,
     liquidationBond : Bonds]

\* Loans that pass every filter at its boundary, or fail exactly one of them.
LoanRecordsOneFilter ==
    {l \in LoanRecords :
        Cardinality({f \in {"tp", "debt", "np"} :
            \/ f = "tp" /\ TpBelowLup(l.thresholdPrice, Lup)
            \/ f = "debt" /\ DebtTooLow(l.debt)
            \/ f = "np" /\ NotProfitable(l.neutralPrice, LimitPrice)}) <= 1}

LoanLists(records) ==
    UNION {[1 .. n -> records] : n \in 0 .. MaxLoans}

InitBatch ==
    /\ kpc = "start"
    /\ loanMap = <<>>
    /\ borrowersSortedByBond = <<>>
    /\ i = 0
    /\ loanToKick = NoLoan
    /\ examined = <<>>
    /\ approvals = <<>>
    /\ kicks = <<>>
    /\ granted = FALSE

OneKickTask ==
    task = [t \in Tasks |->
              [kind |-> IF t = KickTask THEN "handleKicks" ELSE "none",
               signer |-> "s1", pc |-> "start", result |-> "none"]]

\* A batch of handleKicks for one pool, its transactions going through the
\* sequencer.
InitKick ==
    /\ InitSequencer
    /\ InitBatch
    /\ NoExt
    /\ OneKickTask
    /\ dryRun \in BOOLEAN
    /\ loans \in LoanLists(LoanRecordsOneFilter)
    /\ balance \in Balances
    /\ allowance \in Allowances
    /\ quoteDecimals \in QuoteDecimals

NextKick ==
    \/ getLoansToKickFetch
    \/ getLoansToKickNext
    \/ kick
    \/ kickApproved
    \/ kickSettled
    \/ clearAllowances
    \/ clearAllowancesSettled
    \/ \E s \in Signers : HandNonce(s)
    \/ \E t \in Tasks : NonceMismatch(t)
    \/ \E t \in Tasks : BroadcastTx(t)
    \/ \E t \in Tasks : BroadcastFail(t)
    \/ \E t \in Tasks : Confirm(t)
    \/ \E t \in Tasks : Revert(t)

SpecKick == InitKick /\ [][NextKick]_vars

\* The scan of getLoansToKick alone: a dry-run batch with nothing to clear,
\* over every combination of loan fields, the bonds changing under it.
InitScan ==
    /\ InitSequencer
    /\ InitBatch
    /\ NoExt
    /\ OneKickTask
    /\ dryRun = TRUE
    /\ loans \in LoanLists(LoanRecords)
    /\ balance \in {1000}
    /\ allowance = 0
    /\ quoteDecimals = 18

NextScan ==
    \/ getLoansToKickFetch
    \/ getLoansToKickNext
    \/ BondChanges
    \/ kick
    \/ clearAllowances

SpecScan == InitScan /\ [][NextScan]_vars

\* A batch of real kicks starting with no allowance, the bonds changing
\* between the loan snapshot and the examination of each loan.
InitBatchOfKicks ==
    /\ InitSequencer
    /\ InitBatch
    /\ NoExt
    /\ OneKickTask
    /\ dryRun = FALSE
    /\ loans \in LoanLists(LoanRecordsOneFilter)
    /\ balance \in {300, 1000}
    /\ allowance = 0
    /\ quoteDecimals \in QuoteDecimals

NextBatchOfKicks ==
    \/ getLoansToKickFetch
    \/ getLoansToKickNext
    \/ BondChanges
    \/ kick
    \/ kickApproved
    \/ kickSettled
    \/ clearAllowances
    \/ clearAllowancesSettled
    \/ \E s \in Signers : HandNonce(s)
    \/ \E t \in Tasks : BroadcastTx(t)
    \/ \E t \in Tasks : Confirm(t)
    \/ \E t \in Tasks : Revert(t)

SpecBatchOfKicks == InitBatchOfKicks /\ [][NextBatchOfKicks]_vars

(***************************************************************************)
(* Price resolution: getPriceCoinGecko, getPrice, getPoolPrice,            *)
(* getPriceFromAlchemy, getPoolPriceFromAlchemy                            *)
(***************************************************************************)

\* JavaScript values as far as prices go: a number (kept as a fraction), a
\* string, undefined, NaN; "throw" is a rejected promise.
Num(n) == [t |-> "num", num |-> n, den |-> 1]
Str == [t |-> "string", num |-> 0, den |-> 1]
Undefined == [t |-> "undefined", num |-> 0, den |-> 1]
NaN == [t |-> "nan", num |-> 0, den |-> 1]
Thrown == [t |-> "throw", num |-> 0, den |-> 1]

PriceTokens == {"collateral", "quote"}

\* What each service quotes for each token, in USD.
CoinGeckoUsd(token) == IF token = "collateral" THEN 2000 ELSE 2
AlchemyUsd(token) == IF token = "collateral" THEN 2002 ELSE 3

\* The HTTP status CoinGecko answers with when the rate limit is exceeded.
TooManyRequests == 429

\* A CoinGecko answer: the request is rejected (no connection, a body that is
\* not JSON), or res.ok and the parsed body, an object given by the values of
\* its properties, themselves objects given by their values.
\*   {"<id>": {"usd": p}}                                   the price
\*   {}                                                     unknown id
\*   {"<id>": {}}                                           no usd price
\*   {"status": {"error_code": 429, "error_message": ...}}  HTTP 429
CoinGeckoResponses(token) ==
    { [rejects |-> TRUE, ok |-> FALSE, body |-> <<>>],
      [rejects |-> FALSE, ok |-> TRUE, body |-> << <<Num(CoinGeckoUsd(token))>> >>],
      [rejects |-> FALSE, ok |-> TRUE, body |-> <<>>],
      [rejects |-> FALSE, ok |-> TRUE, body |-> << <<>> >>],
      [rejects |-> FALSE, ok |-> FALSE, body |-> << <<Num(TooManyRequests), Str>> >>] }

\* An Alchemy answer: response.ok and data, a list of [error, prices].
AlchemyResponses(token) ==
    { [ok |-> FALSE, data |-> <<>>],
      [ok |-> TRUE, data |-> <<>>],
      [ok |-> TRUE, data |-> <<[error |-> TRUE, prices |-> <<>>]>>],
      [ok |-> TRUE, data |-> <<[error |-> FALSE, prices |-> <<>>]>>],
      [ok |-> TRUE, data |-> <<[error |-> FALSE,
                               prices |-> <<[currency |-> "eur", value |-> 1]>>]>>],
      [ok |-> TRUE, data |-> <<[error |-> FALSE,
                               prices |-> <<[currency |-> "eur", value |-> 1],
                                            [currency |-> "USD",
                                             value |-> AlchemyUsd(token)]>>]>>] }

ApiKeys == {"undefined", "", "YOUR_COINGECKO_API_KEY_HERE", "CG-key"}
ChainIds == {0, 8453, 999}
RpcUrls == {"", "https://rpc.example", "https://base-mainnet.g.alchemy.com/v2/key"}
TokenAddresses == {"null", "0xToken"}

\* apiKey && apiKey.trim() !== '' && apiKey !== 'YOUR_COINGECKO_API_KEY_HERE'
ApiKeyProvided(apiKey) ==
    apiKey \notin {"undefined", "", "YOUR_COINGECKO_API_KEY_HERE"}

\* Object.values(Object.values(resJson)[0])[0]: Object.values(undefined) throws,
\* the first value of an empty object is undefined.  res.ok is not looked at.
CoinGeckoPrice(res) ==
    IF res.rejects THEN Thrown
    ELSE IF Len(res.body) = 0 THEN Thrown
    ELSE IF Len(res.body[1]) = 0 THEN Undefined
    ELSE res.body[1][1]

\* rpcUrl.match(/\/v2\/([a-zA-Z0-9_-]+)/)
extractAlchemyKey(rpcUrl) ==
    IF rpcUrl = "https://base-mainnet.g.alchemy.com/v2/key" THEN "key" ELSE "null"

\* networkMap[chainId]
getAlchemyNetwork(chainId) ==
    IF chainId = 8453 THEN "base-mainnet" ELSE "throw"

toLowerCase(currency) == IF currency = "USD" THEN "usd" ELSE currency

\* tokenData.prices.find(p => p.currency.toLowerCase() === 'usd')
RECURSIVE FindUsd(_)
FindUsd(prices) ==
    IF prices = <<>> THEN Thrown
    ELSE IF toLowerCase(Head(prices).currency) = "usd" THEN Num(Head(prices).value)
    ELSE FindUsd(Tail(prices))

getPriceFromAlchemy(res, chainId, rpcUrl) ==
    IF extractAlchemyKey(rpcUrl) = "null" THEN Thrown
    ELSE IF getAlchemyNetwork(chainId) = "throw" THEN Thrown
    ELSE IF ~res.ok THEN Thrown
    ELSE IF Len(res.data) = 0 THEN Thrown
    ELSE IF res.data[1].error THEN Thrown
    ELSE FindUsd(res.data[1].prices)

\* The fallback of getPrice: chainId and rpcUrl are needed, the token id is
\* taken from the query and mapped to an address, Alchemy is asked.
AlchemyFallback(in, token, calls) ==
    IF in.chainId = 0 \/ in.rpcUrl = "" THEN [value |-> Thrown, calls |-> calls]
    ELSE IF ~in.queryHasIds THEN [value |-> Thrown, calls |-> calls]
    ELSE IF in.address[token] = "null" THEN [value |-> Thrown, calls |-> calls]
    ELSE [value |-> getPriceFromAlchemy(in.alchemy[token], in.chainId, in.rpcUrl),
          calls |-> Append(calls, <<"alchemy", token>>)]

\* getPrice: CoinGecko when the key is provided, Alchemy when CoinGecko threw
\* or there is no key.
getPrice(in, token) ==
    IF ApiKeyProvided(in.apiKey)
    THEN LET price == CoinGeckoPrice(in.coinGecko[token])
             calls == << <<"coingecko", token>> >>
         IN IF price.t # "throw"
            THEN [value |-> price, calls |-> calls]
            ELSE AlchemyFallback(in, token, calls)
    ELSE AlchemyFallback(in, token, <<>>)

\* a / b on JavaScript values.
Divide(a, b) ==
    IF a.t = "num" /\ b.t = "num"
    THEN [t |-> "num", num |-> a.num * b.den, den |-> a.den * b.num]
    ELSE NaN

\* Promise.all of the two Alchemy prices, then collateralPrice / quotePrice.
getPoolPriceFromAlchemy(in, calls) ==
    LET collateralPrice ==
            getPriceFromAlchemy(in.alchemy["collateral"], in.chainId, in.rpcUrl)
        quotePrice == getPriceFromAlchemy(in.alchemy["quote"], in.chainId, in.rpcUrl)
        asked == calls \o << <<"alchemy", "collateral">>, <<"alchemy", "quote">> >>
    IN IF collateralPrice.t = "throw" \/ quotePrice.t = "throw"
       THEN [value |-> Thrown, calls |-> asked]
       ELSE [value |-> Divide(collateralPrice, quotePrice), calls |-> asked]

PoolPriceFallback(in, calls) ==
    IF in.chainId = 0 \/ in.rpcUrl = "" THEN [value |-> Thrown, calls |-> calls]
    ELSE IF in.address["quote"] = "null" \/ in.address["collateral"] = "null"
    THEN [value |-> Thrown, calls |-> calls]
    ELSE getPoolPriceFromAlchemy(in, calls)

\* getPoolPrice: with the key, getPrice for the collateral, then for the quote
\* token, each with its own fallback; when either throws, or without the key,
\* both prices from Alchemy.
getPoolPrice(in) ==
    IF ApiKeyProvided(in.apiKey)
    THEN LET collateralPrice == getPrice(in, "collateral")
             quotePrice == getPrice(in, "quote")
         IN IF collateralPrice.value.t = "throw"
            THEN PoolPriceFallback(in, collateralPrice.calls)
            ELSE IF quotePrice.value.t = "throw"
            THEN PoolPriceFallback(in, collateralPrice.calls \o quotePrice.calls)
            ELSE [value |-> Divide(collateralPrice.value, quotePrice.value),
                  calls |-> collateralPrice.calls \o quotePrice.calls]
    ELSE PoolPriceFallback(in, <<>>)

\* isPriceOriginQuery(config) ? getPrice(config.query, ...) : getPoolPrice(...)
getPriceCoinGecko ==
    /\ priceOut = NoResult
    /\ priceOut' = IF priceIn.config = "query"
                   THEN getPrice(priceIn, "collateral")
                   ELSE getPoolPrice(priceIn)
    /\ UNCHANGED priceIn
    /\ UNCHANGED <<seqVars, taskVars, chainVars, kickVars, swapVars, settleVars, laterVars>>

\* The query of a query configuration names the token or does not; a pair
\* configuration builds its queries itself.  A query configuration asks about
\* one token only.
PriceInputs ==
    { in \in [config : {"query", "pair"},
              queryHasIds : BOOLEAN,
              apiKey : ApiKeys,
              chainId : ChainIds,
              rpcUrl : RpcUrls,
              address : [PriceTokens -> TokenAddresses],
              coinGecko : [PriceTokens -> UNION {CoinGeckoResponses(k) : k \in PriceTokens}],
              alchemy : [PriceTokens -> UNION {AlchemyResponses(k) : k \in PriceTokens}]] :
        /\ \A k \in PriceTokens :
              /\ in.coinGecko[k] \in CoinGeckoResponses(k)
              /\ in.alchemy[k] \in AlchemyResponses(k)
        /\ in.config = "pair" => in.queryHasIds
        /\ in.config = "query" =>
              /\ in.address["quote"] = "null"
              /\ in.coinGecko["quote"].rejects
              /\ ~in.alchemy["quote"].ok }

InitPrice ==
    /\ InitSequencer
    /\ NoBatch
    /\ dryRun = FALSE
    /\ task = [t \in Tasks |-> [kind |-> "none", signer |-> "s1", pc |-> "start",
                                result |-> "none"]]
    /\ NoSwap
    /\ NoSettle
    /\ NoLater
    /\ priceIn \in PriceInputs
    /\ priceOut = NoResult

NextPrice == getPriceCoinGecko

SpecPrice == InitPrice /\ [][NextPrice]_vars

(***************************************************************************)
(* One swap through the Aerodrome router, its transactions going through   *)
(* the sequencer.                                                          *)
(***************************************************************************)

SwapTask == 1

\* slippagePercentage: 0.5, 1 and 2 as configured, and 0.125, which is 12.5
\* basis points.
Slippages == {[num |-> 1, den |-> 2], [num |-> 1, den |-> 1], [num |-> 2, den |-> 1],
              [num |-> 1, den |-> 8]}

SwapInputs ==
    { [poolType |-> pt, volatilePool |-> vp, stablePool |-> sp, amount |-> 100,
       expectedAmountOut |-> out, slippagePercentage |-> sl,
       sameToken |-> FALSE] @@ SwapLocals :
        pt \in {"undefined", "volatile", "stable"},
        vp \in {ZeroAddress, "0xVolatile"},
        sp \in {ZeroAddress, "0xStable"},
        out \in {999, 1000, 12345},
        sl \in Slippages }
    \cup {[DefaultSwap EXCEPT !.sameToken = TRUE]}

InitSwap ==
    /\ InitSequencer
    /\ NoBatch
    /\ NoPrice
    /\ NoSettle
    /\ NoLater
    /\ dryRun = FALSE
    /\ task = [t \in Tasks |->
                 [kind |-> IF t = SwapTask THEN "swap" ELSE "none",
                  signer |-> "s1", pc |-> "start", result |-> "none"]]
    /\ swap \in [Tasks -> SwapInputs]
    /\ \A t \in Tasks : t # SwapTask => swap[t] = DefaultSwap
    /\ routerAllowance \in [Signers -> {0, 99, 100}]
    /\ routerAllowance["s2"] = 0

NextSwap ==
    \/ \E t \in Tasks : swapFindPool(t)
    \/ \E t \in Tasks : quoteProviderPoolExists(t)
    \/ \E t \in Tasks : quoteProviderGetQuote(t)
    \/ \E t \in Tasks : swapReadAllowance(t)
    \/ \E t \in Tasks : swapApproveRouter(t)
    \/ \E t \in Tasks : swapApproveReturn(t)
    \/ \E t \in Tasks : swapExecute(t)
    \/ \E t \in Tasks : swapReturn(t)
    \/ \E s \in Signers : HandNonce(s)
    \/ \E t \in Tasks : BroadcastTx(t)
    \/ \E t \in Tasks : BroadcastFail(t)
    \/ \E t \in Tasks : Confirm(t)
    \/ \E t \in Tasks : Revert(t)
    \/ \E t \in Tasks : Timeout(t)
    \/ \E s \in Signers : Mine(s)

SpecSwap == InitSwap /\ [][NextSwap]_vars

(***************************************************************************)
(* Settlement of an auction: SettlementPending once the collateral is gone, *)
(* debt remains and the auction is old enough; then up to maxIterations    *)
(* settlement calls until the protocol reports the auction settled.        *)
(***************************************************************************)

\* Time is counted in steps of minAuctionAge's unit, up to MaxAge.
MaxAge == 3

\* The largest debt an auction starts with.
MaxDebt == 2

\* The largest maxIterations configured.
MaxSettleIterations == 3

\* How many settlement attempts (cycles) are followed for the auction.
MaxAttempts == 2

NeedsSettlementAnyAge(a, cfg) ==
    /\ ~a.settled
    /\ a.collateralRemaining = 0
    /\ a.debtRemaining > 0
    /\ cfg.incentive

\* The auction is to be settled: no collateral left, debt left, old enough,
\* and, with checkBotIncentive, this account is the kicker with a bond reward.
NeedsSettlement(a, cfg) ==
    /\ ~a.settled
    /\ a.collateralRemaining = 0
    /\ a.debtRemaining > 0
    /\ a.age >= cfg.minAuctionAge
    /\ cfg.incentive

BudgetLeftOneMore(cfg) == cfg.iteration < cfg.maxIterations + 1

\* The iteration budget of the attempt is not used up.
BudgetLeft(cfg) == cfg.iteration < cfg.maxIterations

\* Why an auction is left alone.
SkipReason(a, cfg) ==
    IF a.settled THEN "settled"
    ELSE IF a.collateralRemaining # 0 THEN "collateral"
    ELSE IF a.debtRemaining = 0 THEN "noDebt"
    ELSE IF a.age < cfg.minAuctionAge THEN "tooYoung"
    ELSE "noIncentive"

\* Time passes.
Tick ==
    /\ auction.age < MaxAge
    /\ auction' = [auction EXCEPT !.age = @ + 1]
    /\ UNCHANGED settle
    /\ UNCHANGED <<seqVars, taskVars, chainVars, kickVars, priceVars, swapVars, laterVars>>

\* A take by anyone removes the last collateral of the auction.
TakeCollateral ==
    /\ auction.collateralRemaining > 0
    /\ auction' = [auction EXCEPT !.collateralRemaining = 0]
    /\ UNCHANGED settle
    /\ UNCHANGED <<seqVars, taskVars, chainVars, kickVars, priceVars, swapVars, laterVars>>

\* A cycle of the engine looks at the auction: it becomes SettlementPending or
\* is skipped for this cycle.
settleCheck ==
    /\ settle.pc = "idle"
    /\ settle.attempt < MaxAttempts
    /\ IF NeedsSettlement(auction, settle)
       THEN settle' = [settle EXCEPT !.pc = "pending", !.attempt = @ + 1,
                                     !.iteration = 0]
       ELSE /\ settle.skipped # SkipReason(auction, settle)
            /\ settle' = [settle EXCEPT !.skipped = SkipReason(auction, settle)]
    /\ UNCHANGED auction
    /\ UNCHANGED <<seqVars, taskVars, chainVars, kickVars, priceVars, swapVars, laterVars>>

\* One settlement call: up to maxBucketDepth buckets absorb some of the debt,
\* possibly none, possibly all of it, and the protocol reports the auction
\* settled when no debt is left.
settleCall ==
    /\ settle.pc = "pending"
    /\ ~auction.settled
    /\ BudgetLeft(settle)
    /\ \E absorbed \in 0 .. auction.debtRemaining :
          /\ auction' = [auction EXCEPT !.debtRemaining = @ - absorbed,
                                        !.settled = (auction.debtRemaining = absorbed)]
          /\ settle' = [settle EXCEPT
                !.iteration = @ + 1,
                !.pc = IF auction.debtRemaining = absorbed THEN "idle" ELSE "pending",
                !.calls = @ \cup {[attempt |-> settle.attempt,
                                   iteration |-> settle.iteration + 1,
                                   collateralRemaining |-> auction.collateralRemaining,
                                   debtRemaining |-> auction.debtRemaining,
                                   age |-> auction.age,
                                   settled |-> auction.settled]}]
    /\ UNCHANGED <<seqVars, taskVars, chainVars, kickVars, priceVars, swapVars, laterVars>>

\* The budget is used up: the auction stays unsettled and is looked at again
\* on a later cycle.
settleExhausted ==
    /\ settle.pc = "pending"
    /\ ~BudgetLeft(settle)
    /\ settle' = [settle EXCEPT !.pc = "idle"]
    /\ UNCHANGED auction
    /\ UNCHANGED <<seqVars, taskVars, chainVars, kickVars, priceVars, swapVars, laterVars>>

InitSettle ==
    /\ InitSequencer
    /\ NoBatch
    /\ NoPrice
    /\ NoSwap
    /\ NoLater
    /\ dryRun = FALSE
    /\ task = [t \in Tasks |-> [kind |-> "none", signer |-> "s1", pc |-> "start",
                                result |-> "none"]]
    /\ auction \in [collateralRemaining : {0, 1}, debtRemaining : 0 .. MaxDebt,
                    age : {0, 1}, settled : {FALSE}]
    /\ settle \in [minAuctionAge : {1, 2}, maxIterations : 1 .. MaxSettleIterations,
                   incentive : BOOLEAN, pc : {"idle"}, attempt : {0},
                   iteration : {0}, skipped : {"none"}, calls : {{}}]

NextSettle ==
    \/ Tick
    \/ TakeCollateral
    \/ settleCheck
    \/ settleCall
    \/ settleExhausted

SpecSettle == InitSettle /\ [][NextSettle]_vars

(***************************************************************************)
(* The pool snapshot cache (pool-interest.ts)                               *)
(*                                                                         *)
(* snapshotCache maps a lower-case pool address to "none" (no entry),      *)
(* "fresh" (entry.expiry >= Date.now()) or "expired".  inFlight is 0 for   *)
(* null, or the task whose call created the promise it holds.  A call is   *)
(* at "awaitOwn" while the request it started is with the subgraph, at     *)
(* "finally" when that request has settled and the finally block of        *)
(* fetchSnapshots has not run yet, at "awaitOther" while it waits for the  *)
(* promise of another call, at "resumed" when that promise has settled     *)
(* (with awaiting back at 0 once the maker of the request has run its      *)
(* finally block), and at "loop" when fetchSnapshots has returned to the   *)
(* while loop.  A call that returned keeps in settled whether a request    *)
(* was awaited on its way ("ok") or the cache answered at once ("none").   *)
(***************************************************************************)
MaxAddresses == 2

\* Pool addresses as callers spell them.
Addresses == {"0xA", "0xa", "0xb"}

\* The pools the subgraph has a snapshot for: pools(where: {id_in: ...})
\* returns these and leaves every other address out.
KnownPools == {"0xa"}

AddressLists == UNION {[1 .. n -> Addresses] : n \in 0 .. MaxAddresses}

AddressToLowerCase(address) == IF address = "0xA" THEN "0xa" ELSE address

RECURSIVE NormalizeFrom(_, _, _)
NormalizeFrom(addresses, at, normalized) ==
    IF at > Len(addresses) THEN normalized
    ELSE LET lower == AddressToLowerCase(addresses[at])
         IN  IF \E k \in 1 .. Len(normalized) : normalized[k] = lower
             THEN NormalizeFrom(addresses, at + 1, normalized)
             ELSE NormalizeFrom(addresses, at + 1, Append(normalized, lower))

\* Lower-cases every address and drops the repetitions, keeping the order.
normalizeAddresses(addresses) == NormalizeFrom(addresses, 1, <<>>)

\* A check that asks for an entry and not for its expiry.
needsRefreshWhenMissing(normalized) ==
    \E k \in 1 .. Len(normalized) : snapshotCache[normalized[k]] = "none"

\* normalized.some(address => !entry || entry.expiry < now)
needsRefresh(normalized) ==
    \E k \in 1 .. Len(normalized) : snapshotCache[normalized[k]] # "fresh"

\* The map the call returns: the addresses that have an entry.
SnapshotResult(normalized) ==
    {normalized[k] : k \in {j \in 1 .. Len(normalized) :
                               snapshotCache[normalized[j]] # "none"}}

\* One pass of the while loop of getPoolSnapshotsCached, up to the return or
\* to the first await inside fetchSnapshots.
LoopIteration(t, normalized, settled) ==
    IF ~needsRefresh(normalized)
    THEN /\ snapCall' = [snapCall EXCEPT ![t] =
                [@ EXCEPT !.pc = "returned", !.addresses = normalized,
                          !.awaiting = 0, !.settled = settled,
                          !.result = SnapshotResult(normalized)]]
         /\ UNCHANGED inFlight
    ELSE IF inFlight # 0
    THEN \* if (inFlight) { await inFlight; return; }
         /\ snapCall' = [snapCall EXCEPT ![t] =
                [@ EXCEPT !.pc = IF snapCall[inFlight].pc = "finally"
                                 THEN "resumed" ELSE "awaitOther",
                          !.addresses = normalized,
                          !.awaiting = inFlight,
                          !.settled = IF snapCall[inFlight].pc = "finally"
                                      THEN snapCall[inFlight].settled
                                      ELSE "none"]]
         /\ UNCHANGED inFlight
    ELSE \* inFlight = (async () => {...})(): the request goes out
         /\ snapCall' = [snapCall EXCEPT ![t] =
                [@ EXCEPT !.pc = "awaitOwn", !.addresses = normalized,
                          !.awaiting = 0, !.settled = "none"]]
         /\ inFlight' = t

\* A task calls getPoolSnapshotsCached: an empty list returns an empty map at
\* once, any other list enters the while loop.
getPoolSnapshotsCached(t) ==
    /\ snapCall[t].pc \in {"idle", "returned", "rejected"}
    /\ \E poolAddresses \in AddressLists :
         LET normalized == normalizeAddresses(poolAddresses)
         IN  IF Len(normalized) = 0
             THEN /\ snapCall' = [snapCall EXCEPT ![t] =
                         [NoSnapCall EXCEPT !.pc = "returned"]]
                  /\ UNCHANGED inFlight
             ELSE LoopIteration(t, normalized, "none")
    /\ UNCHANGED <<snapshotCache, seqVars, taskVars, chainVars, kickVars,
                   priceVars, swapVars, settleVars, rewardVars, interest, taker>>

\* subgraph.getPoolsSnapshot settles for the request of task t: on success
\* the snapshots that came back are stored with a new expiry, on failure the
\* promise rejects.  Everyone awaiting the promise is woken.
getPoolsSnapshotSettles(t) ==
    /\ snapCall[t].pc = "awaitOwn"
    /\ \E ok \in BOOLEAN :
         /\ snapshotCache' =
                IF ok
                THEN [id \in PoolIds |->
                        IF /\ id \in KnownPools
                           /\ \E k \in 1 .. Len(snapCall[t].addresses) :
                                  snapCall[t].addresses[k] = id
                        THEN "fresh" ELSE snapshotCache[id]]
                ELSE snapshotCache
         /\ snapCall' = [u \in Tasks |->
                IF u = t
                THEN [snapCall[u] EXCEPT !.pc = "finally",
                                         !.settled = IF ok THEN "ok" ELSE "fail"]
                ELSE IF snapCall[u].pc = "awaitOther" /\ snapCall[u].awaiting = t
                THEN [snapCall[u] EXCEPT !.pc = "resumed",
                                         !.settled = IF ok THEN "ok" ELSE "fail"]
                ELSE snapCall[u]]
    /\ UNCHANGED <<inFlight, seqVars, taskVars, chainVars, kickVars, priceVars,
                   swapVars, settleVars, rewardVars, interest, taker>>

\* try { await inFlight } finally { inFlight = null }: the caller that made
\* the request resets the marker, whatever the marker holds by now.
fetchSnapshotsFinally(t) ==
    /\ snapCall[t].pc = "finally"
    /\ inFlight' = 0
    /\ snapCall' = [u \in Tasks |->
            IF u = t
            THEN [snapCall[u] EXCEPT !.pc = IF snapCall[t].settled = "fail"
                                            THEN "rejected" ELSE "loop",
                                     !.result = {}]
            ELSE IF snapCall[u].pc = "resumed" /\ snapCall[u].awaiting = t
            THEN [snapCall[u] EXCEPT !.awaiting = 0]
            ELSE snapCall[u]]
    /\ UNCHANGED <<snapshotCache, seqVars, taskVars, chainVars, kickVars,
                   priceVars, swapVars, settleVars, rewardVars, interest, taker>>

\* A caller that awaited the promise of another call goes on once that call
\* has run its finally block: the continuation of the call that made the
\* request was queued first.
fetchSnapshotsWaiterResumes(t) ==
    /\ snapCall[t].pc = "resumed"
    /\ snapCall[t].awaiting = 0
    /\ snapCall' = [snapCall EXCEPT ![t] =
            [@ EXCEPT !.pc = IF snapCall[t].settled = "fail"
                             THEN "rejected" ELSE "loop"]]
    /\ UNCHANGED <<snapshotCache, inFlight, seqVars, taskVars, chainVars,
                   kickVars, priceVars, swapVars, settleVars, rewardVars, interest, taker>>

\* fetchSnapshots has returned: the while loop checks the cache again.
getPoolSnapshotsCachedLoop(t) ==
    /\ snapCall[t].pc = "loop"
    /\ LoopIteration(t, snapCall[t].addresses, snapCall[t].settled)
    /\ UNCHANGED <<snapshotCache, seqVars, taskVars, chainVars, kickVars,
                   priceVars, swapVars, settleVars, rewardVars, interest, taker>>

\* clearPoolSnapshotCache: snapshotCache.clear(); inFlight = null.
clearPoolSnapshotCache ==
    /\ snapshotCache' = [id \in PoolIds |-> "none"]
    /\ inFlight' = 0
    /\ UNCHANGED <<snapCall, seqVars, taskVars, chainVars, kickVars, priceVars,
                   swapVars, settleVars, rewardVars, interest, taker>>

\* CACHE_TTL_MS pass: a fresh entry expires.
SnapshotExpires(id) ==
    /\ snapshotCache[id] = "fresh"
    /\ snapshotCache' = [snapshotCache EXCEPT ![id] = "expired"]
    /\ UNCHANGED <<inFlight, snapCall, seqVars, taskVars, chainVars, kickVars,
                   priceVars, swapVars, settleVars, rewardVars, interest, taker>>

InitSnapshot ==
    /\ InitSequencer
    /\ NoBatch
    /\ NoPrice
    /\ NoSwap
    /\ NoSettle
    /\ NoRewards
    /\ NoInterest
    /\ NoTaker
    /\ dryRun = FALSE
    /\ task = [t \in Tasks |-> [kind |-> "none", signer |-> "s1", pc |-> "start",
                                result |-> "none"]]
    /\ snapshotCache \in {c \in [PoolIds -> {"none", "fresh", "expired"}] :
                             \A id \in PoolIds \ KnownPools : c[id] = "none"}
    /\ inFlight = 0
    /\ snapCall = [t \in Tasks |-> NoSnapCall]

SnapshotCallSteps ==
    \E t \in Tasks :
        \/ getPoolsSnapshotSettles(t)
        \/ fetchSnapshotsFinally(t)
        \/ fetchSnapshotsWaiterResumes(t)
        \/ getPoolSnapshotsCachedLoop(t)

NextSnapshot ==
    \/ \E t \in Tasks : getPoolSnapshotsCached(t)
    \/ SnapshotCallSteps
    \/ clearPoolSnapshotCache
    \/ \E id \in PoolIds : SnapshotExpires(id)

SpecSnapshot == InitSnapshot /\ [][NextSnapshot]_vars

\* The cache when nobody clears it and no entry expires while a call runs:
\* every subgraph request settles and every caller goes on when it can.
NextSnapshotCalls ==
    \/ \E t \in Tasks : getPoolSnapshotsCached(t)
    \/ SnapshotCallSteps

SpecSnapshotFair ==
    /\ InitSnapshot
    /\ [][NextSnapshotCalls]_vars
    /\ \A t \in Tasks :
         /\ WF_vars(getPoolsSnapshotSettles(t))
         /\ WF_vars(fetchSnapshotsFinally(t))
         /\ WF_vars(fetchSnapshotsWaiterResumes(t))
         /\ WF_vars(getPoolSnapshotsCachedLoop(t))

(***************************************************************************)
(* Collecting the liquidation bond (collect-bond.ts)                       *)
(*                                                                         *)
(* kickerInfo is what pool.kickerInfo(signer) reports: the bond that is    *)
(* claimable and the bond locked in auctions that are not settled.  A kick *)
(* by the signer locks a bond, a take adds the kicker's reward to it, and  *)
(* settling the auction turns the bond from locked to claimable.  An       *)
(* auction is "kicked" while it has collateral, "taken" once the           *)
(* collateral is gone and debt remains, and "settled" at the end; its age  *)
(* counts in units of the smallest minAuctionAge.  collectBondFromPool is  *)
(* given the pool's settlement options: when the bond is locked it tries   *)
(* to settle the auctions that are ready for it and then collects again.   *)
(***************************************************************************)
MaxBondAuctions == 2
MaxCollects == 2

BondAuctions == 1 .. MaxBondAuctions
BondSizes == {1, 2}
KickerRewards == {0, 1}
BondAges == {0, 1}

\* The settlement options a call is given: enabled or not, and the age an
\* auction must have.  The signer is the kicker of every auction here, so
\* checkBotIncentive makes no difference.
SettlementOptions == [enabled : BOOLEAN, minAuctionAge : {1}]

\* A collection that takes whatever is claimable, locked bonds or not.
ClaimableBondIgnoringLock(info) == info.claimable

\* What a collection withdraws: the whole claimable bond once nothing is
\* locked any more, and nothing before.
ClaimableBond(info) ==
    IF info.locked = 0 /\ info.claimable > 0 THEN info.claimable ELSE 0

\* The auction is ready to be settled under the options: settlement is
\* enabled, the collateral is gone with debt left, and the auction is old
\* enough.
BondNeedsSettlement(liquidation, settlement) ==
    /\ settlement.enabled
    /\ liquidation.state = "taken"
    /\ liquidation.age >= settlement.minAuctionAge

RECURSIVE BondsOf(_)
\* The bonds of a set of auctions, added up.
BondsOf(auctions) ==
    IF auctions = {} THEN 0
    ELSE LET a == CHOOSE x \in auctions : TRUE
         IN liquidations[a].bond + BondsOf(auctions \ {a})

\* handleKicks kicks a loan with the signer's funds: the bond is locked.
bondKick(a) ==
    /\ liquidations[a].state = "none"
    /\ \E bondSize \in BondSizes :
         /\ liquidations' = [liquidations EXCEPT ![a] =
                                [state |-> "kicked", bond |-> bondSize, age |-> 0]]
         /\ kickerInfo' = [kickerInfo EXCEPT !.locked = @ + bondSize]
    /\ UNCHANGED <<bondCalls, coreVars, snapVars, lpVars>>

\* increaseTime: every auction that is not settled grows older.
bondTick ==
    /\ \E a \in BondAuctions :
          liquidations[a].state \in {"kicked", "taken"} /\ liquidations[a].age + 1 \in BondAges
    /\ liquidations' = [a \in BondAuctions |->
          IF liquidations[a].state \in {"kicked", "taken"} /\ liquidations[a].age + 1 \in BondAges
          THEN [liquidations[a] EXCEPT !.age = @ + 1]
          ELSE liquidations[a]]
    /\ UNCHANGED <<kickerInfo, bondCalls, coreVars, snapVars, lpVars>>

\* The auction is taken: the kicker's reward joins the locked bond.
bondTake(a) ==
    /\ liquidations[a].state = "kicked"
    /\ \E reward \in KickerRewards :
         /\ liquidations' = [liquidations EXCEPT ![a].state = "taken",
                                                 ![a].bond = @ + reward]
         /\ kickerInfo' = [kickerInfo EXCEPT !.locked = @ + reward]
    /\ UNCHANGED <<bondCalls, coreVars, snapVars, lpVars>>

\* liquidation.settle, called on the pool directly: the bond of the auction
\* becomes claimable.
bondSettle(a) ==
    /\ liquidations[a].state = "taken"
    /\ liquidations' = [liquidations EXCEPT ![a].state = "settled"]
    /\ kickerInfo' = [claimable |-> kickerInfo.claimable + liquidations[a].bond,
                      locked |-> kickerInfo.locked - liquidations[a].bond]
    /\ UNCHANGED <<bondCalls, coreVars, snapVars, lpVars>>

\* collectBondFromPool({signer, pool, poolConfig, config}): reads kickerInfo
\* and withdraws the claimable bond when nothing is locked.  With a locked
\* bond the collection fails; with settlement enabled the auctions that are
\* ready are put to settlement, settledNow are those it settled within its
\* iterations, and the collection is tried again on what kickerInfo reports
\* then.  bondCalls keeps of each call the settlement options, whether it
\* found a bond locked, what it settled and the BondWithdrawn amount.
collectBondFromPool(settlement, settledNow) ==
    /\ Len(bondCalls) < MaxCollects
    /\ LET ready == IF kickerInfo.locked > 0
                    THEN {a \in BondAuctions :
                             BondNeedsSettlement(liquidations[a], settlement)}
                    ELSE {}
           unlocked == BondsOf(settledNow)
           retried == [claimable |-> kickerInfo.claimable + unlocked,
                       locked |-> kickerInfo.locked - unlocked]
           amount == ClaimableBond(retried)
       IN  /\ settledNow \subseteq ready
           /\ liquidations' = [a \in BondAuctions |->
                  IF a \in settledNow
                  THEN [liquidations[a] EXCEPT !.state = "settled"]
                  ELSE liquidations[a]]
           /\ kickerInfo' = [retried EXCEPT !.claimable = @ - amount]
           /\ bondCalls' = Append(bondCalls,
                  [enabled |-> settlement.enabled,
                   minAuctionAge |-> settlement.minAuctionAge,
                   locked |-> kickerInfo.locked > 0,
                   settledNow |-> settledNow,
                   withdrawn |-> amount])
    /\ UNCHANGED <<coreVars, snapVars, lpVars>>

InitBond ==
    /\ InitSequencer
    /\ NoBatch
    /\ NoPrice
    /\ NoSwap
    /\ NoSettle
    /\ NoSnapshots
    /\ NoLpCollector
    /\ NoInterest
    /\ NoTaker
    /\ dryRun = FALSE
    /\ task = [t \in Tasks |-> [kind |-> "none", signer |-> "s1", pc |-> "start",
                                result |-> "none"]]
    /\ kickerInfo = [claimable |-> 0, locked |-> 0]
    /\ liquidations = [a \in BondAuctions |->
                           [state |-> "none", bond |-> 0, age |-> 0]]
    /\ bondCalls = <<>>

NextBond ==
    \/ \E a \in BondAuctions : bondKick(a)
    \/ \E a \in BondAuctions : bondTake(a)
    \/ \E a \in BondAuctions : bondSettle(a)
    \/ bondTick
    \/ \E settlement \in SettlementOptions, settledNow \in SUBSET BondAuctions :
          collectBondFromPool(settlement, settledNow)

SpecBond == InitBond /\ [][NextBond]_vars

(***************************************************************************)
(* Tracking the reward LP (collect-lp.ts)                                  *)
(*                                                                         *)
(* The pool emits BucketTakeLPAwarded(taker, kicker, lpAwardedTaker,       *)
(* lpAwardedKicker) for a bucket take.  While its subscription is active   *)
(* the LpCollector of LpSigner hears the event and adds to lpMap, under    *)
(* the index of the bucket, what the event awards to its signer.           *)
(***************************************************************************)
MaxLpEvents == 2

Accounts == {"keeper", "other"}
LpSigner == "keeper"
BucketIndexes == {1, 2}
LpAwards == {0, 1}

AwardEvents == [taker : Accounts, kicker : Accounts, index : BucketIndexes,
                lpAwardedTaker : LpAwards, lpAwardedKicker : LpAwards]

\* A collector that tracks what the event awards, whoever it is awarded to.
RewardOfAnyone(evt) == evt.lpAwardedTaker + evt.lpAwardedKicker

\* What the event awards to the signer of the collector, as taker and as
\* kicker.
RewardOfSigner(evt) ==
    (IF evt.taker = LpSigner THEN evt.lpAwardedTaker ELSE 0)
    + (IF evt.kicker = LpSigner THEN evt.lpAwardedKicker ELSE 0)

\* addReward(index, rewardLp): nothing for a zero reward, the sum with what
\* is tracked for the bucket otherwise.
addReward(map, index, rewardLp) ==
    IF rewardLp = 0 THEN map
    ELSE [bucket \in DOMAIN map \cup {index} |->
            IF bucket = index
            THEN (IF index \in DOMAIN map THEN map[index] ELSE 0) + rewardLp
            ELSE map[bucket]]

startSubscription ==
    /\ ~subscribed
    /\ subscribed' = TRUE
    /\ UNCHANGED <<lpMap, lpEvents, coreVars, snapVars, bondVars>>

stopSubscription ==
    /\ subscribed
    /\ subscribed' = FALSE
    /\ UNCHANGED <<lpMap, lpEvents, coreVars, snapVars, bondVars>>

\* A bucket take in the pool: the event reaches the collector when it is
\* subscribed.
BucketTakeLPAwarded ==
    /\ Len(lpEvents) < MaxLpEvents
    /\ \E evt \in AwardEvents :
         /\ lpEvents' = Append(lpEvents, [event |-> evt, heard |-> subscribed])
         /\ lpMap' = IF subscribed
                     THEN addReward(lpMap, evt.index, RewardOfSigner(evt))
                     ELSE lpMap
    /\ UNCHANGED <<subscribed, coreVars, snapVars, bondVars>>

InitLp ==
    /\ InitSequencer
    /\ NoBatch
    /\ NoPrice
    /\ NoSwap
    /\ NoSettle
    /\ NoSnapshots
    /\ NoBondCollection
    /\ NoInterest
    /\ NoTaker
    /\ dryRun = FALSE
    /\ task = [t \in Tasks |-> [kind |-> "none", signer |-> "s1", pc |-> "start",
                                result |-> "none"]]
    /\ lpMap = [index \in {} |-> 0]
    /\ subscribed = FALSE
    /\ lpEvents = <<>>

NextLp ==
    \/ startSubscription
    \/ stopSubscription
    \/ BucketTakeLPAwarded

SpecLp == InitLp /\ [][NextLp]_vars

(***************************************************************************)
(* AerodromeKeeperTaker (contracts/takers/AerodromeKeeperTaker.sol)        *)
(*                                                                         *)
(* A call of the contract is one transaction: it takes effect as a whole   *)
(* or reverts as a whole.  taker.last and taker.calls keep what the last   *)
(* transaction was and how many there were.  Token amounts are small       *)
(* integers; the approval amount is the value line 112 computes from       *)
(* maxAmount, auctionPrice and the pool's quote-token scale.  The pool and *)
(* the router are other contracts: pool.take either reverts, or hands the  *)
(* callee the collateral, calls the callee's atomicSwapCallback, and then  *)
(* pulls paid quote token from the caller of take within the caller's      *)
(* allowance.  The callback approves the router named in its data for the  *)
(* collateral and calls it; the router pulls collateral within that        *)
(* approval and sends swapped quote token to the contract.  The contract   *)
(* is the caller of take in takeWithAtomicSwap; any other address can call *)
(* pool.take itself and name the contract as callee, and then the callback *)
(* runs with that address paying the pool.                                 *)
(***************************************************************************)

MaxTokenAmount == 2
MaxTakerCalls == 3

TokenAmounts == 0 .. MaxTokenAmount
TakerTokens == {"quote", "collateral"}
Senders == {"owner", "authorizedFactory", "other"}

\* The router a call names: the Aerodrome router, whose
\* swapExactTokensForTokens pulls exactly amountIn, or another contract at
\* the address given, which pulls what it likes of what was approved to it.
Routers == {"aerodromeRouter", "otherRouter"}
RouterPulls(router, amountIn) ==
    IF router = "aerodromeRouter" THEN {amountIn} ELSE 0 .. amountIn

\* How the router call of _swapWithAerodrome ends: it goes through, the call
\* fails, it returns fewer than two amounts, or it reports less than
\* amountOutMinimum.
SwapResults == {"ok", "Aerodrome swap failed", "Invalid swap result",
                "Insufficient output amount"}

\* What the checks of lines 89-101 can answer before anything is approved:
\* three custom errors and four require messages, or all of them passed.
TakeChecks == {"ok", "UnsupportedSource", "InvalidPool", "InvalidSwapDetails",
               "Invalid router", "Invalid factory", "Expired deadline",
               "Invalid minimum amount"}

\* A modifier that lets every sender in.
onlyAnyone(sender) == TRUE

\* modifier onlyOwnerOrFactory: the call goes on for these senders, and
\* reverts with Unauthorized for the others.
onlyOwnerOrFactory(sender) == ~(sender # "owner" /\ sender # "authorizedFactory")

\* An approval that sets a new amount and leaves the old one when asked for 0.
safeApproveWithoutReset(currentAllowance, amount) ==
    IF amount # 0 THEN amount ELSE currentAllowance

\* _safeApproveWithReset: the allowance of the spender after the call.
safeApproveWithReset(currentAllowance, amount) ==
    LET reset == IF currentAllowance # 0 THEN 0 ELSE currentAllowance
    IN IF amount # 0 THEN amount ELSE reset

\* _recoverToken: the whole balance of the token goes to the owner.
recoverToken(state, token) ==
    IF state.balance[token] > 0
    THEN [state EXCEPT !.ownerBalance[token] = @ + state.balance[token],
                       !.balance[token] = 0]
    ELSE state

\* The transaction reverted: only the record of the call changes.
TakerReverted(fn, sender, outcome) ==
    taker' = [taker EXCEPT !.calls = @ + 1,
                           !.last = [NoCall EXCEPT !.fn = fn, !.sender = sender,
                                                   !.outcome = outcome]]

\* _swapWithAerodrome, run on a contract state that already holds the
\* collateral the pool sent: the error it reverts with, or "ok" and the
\* state after the router was approved for amountIn (any old approval reset
\* first), pulled its collateral and sent the quote token.
swapWithAerodrome(state, amountIn, deadlineOk, router, result, pulled, swapped) ==
    IF amountIn = 0 \/ ~deadlineOk
    THEN [outcome |-> "SwapFailed", state |-> state]
    ELSE IF result # "ok"
    THEN [outcome |-> result, state |-> state]
    ELSE [outcome |-> "ok",
          state |-> [state EXCEPT
                        !.routerAllowance[router] =
                            safeApproveWithReset(@, amountIn) - pulled,
                        !.balance["collateral"] = @ - pulled,
                        !.balance["quote"] = @ + swapped]]

\* The pool has sent the contract the collateral of a take.
CollateralReceived(state, collateral) ==
    [state EXCEPT !.balance["collateral"] = @ + collateral]

\* function takeWithAtomicSwap(...) external onlyOwnerOrFactory
\* The deadline passed the check of line 100 in this same transaction, so
\* the callback of its own take finds it in the future.
takeWithAtomicSwap(sender, checks, approvalAmount, takeOk, collateral, router, result, pulled, swapped, paid) ==
    /\ taker.calls < MaxTakerCalls
    /\ pulled \in RouterPulls(router, collateral)
    /\ IF ~onlyOwnerOrFactory(sender)
       THEN TakerReverted("takeWithAtomicSwap", sender, "Unauthorized")
       ELSE IF checks # "ok"
       THEN TakerReverted("takeWithAtomicSwap", sender, checks)
       ELSE LET approved == safeApproveWithReset(taker.poolAllowance, approvalAmount)
                callback == swapWithAerodrome(CollateralReceived(taker, collateral),
                                              collateral, TRUE, router, result,
                                              pulled, swapped)
                held == callback.state.balance["quote"]
            IN IF ~takeOk \/ callback.outcome # "ok"
                  \/ paid > approved \/ paid > held
               THEN TakerReverted("takeWithAtomicSwap", sender, "reverted")
               ELSE LET afterTake ==
                            [callback.state EXCEPT
                                !.balance["quote"] = held - paid,
                                !.poolAllowance = approved - paid]
                        afterReset ==
                            [afterTake EXCEPT !.poolAllowance =
                                safeApproveWithReset(afterTake.poolAllowance, 0)]
                        afterRecover == recoverToken(afterReset, "quote")
                    IN taker' = [afterRecover EXCEPT
                                    !.calls = @ + 1,
                                    !.last = [fn |-> "takeWithAtomicSwap",
                                              sender |-> sender,
                                              outcome |-> "ok",
                                              approved |-> approved,
                                              swapped |-> swapped,
                                              paid |-> paid,
                                              collateral |-> collateral,
                                              pulled |-> pulled,
                                              router |-> router]]
    /\ UNCHANGED <<seqVars, taskVars, chainVars, kickVars, priceVars, swapVars,
                   settleVars, snapVars, rewardVars, interest>>

\* function atomicSwapCallback(uint256 collateral, uint256, bytes data)
\*     external override nonReentrant
\* reached outside takeWithAtomicSwap: sender has called pool.take with the
\* contract as callee and data of its own choice (or has called the
\* function from an address that is no pool of the factory, validPool
\* FALSE).  The pool sent the collateral before the call and pulls the quote
\* token from sender after it; when sender cannot pay, payOk FALSE, the
\* transaction reverts.
atomicSwapCallback(sender, validPool, collateral, deadlineOk, router, result, pulled, swapped, payOk) ==
    /\ taker.calls < MaxTakerCalls
    /\ pulled \in RouterPulls(router, collateral)
    /\ IF ~validPool
       THEN TakerReverted("atomicSwapCallback", sender, "InvalidPool")
       ELSE LET callback == swapWithAerodrome(CollateralReceived(taker, collateral),
                                              collateral, deadlineOk, router,
                                              result, pulled, swapped)
            IN IF callback.outcome # "ok"
               THEN TakerReverted("atomicSwapCallback", sender, callback.outcome)
               ELSE IF ~payOk
               THEN TakerReverted("atomicSwapCallback", sender, "reverted")
               ELSE taker' = [callback.state EXCEPT
                                 !.calls = @ + 1,
                                 !.last = [fn |-> "atomicSwapCallback",
                                           sender |-> sender,
                                           outcome |-> "ok",
                                           approved |-> 0,
                                           swapped |-> swapped,
                                           paid |-> 0,
                                           collateral |-> collateral,
                                           pulled |-> pulled,
                                           router |-> router]]
    /\ UNCHANGED <<seqVars, taskVars, chainVars, kickVars, priceVars, swapVars,
                   settleVars, snapVars, rewardVars, interest>>

\* function recover(IERC20 token) external onlyOwnerOrFactory
recover(sender, token) ==
    /\ taker.calls < MaxTakerCalls
    /\ IF ~onlyOwnerOrFactory(sender)
       THEN TakerReverted("recover", sender, "Unauthorized")
       ELSE taker' = [recoverToken(taker, token) EXCEPT
                         !.calls = @ + 1,
                         !.last = [NoCall EXCEPT !.fn = "recover",
                                                 !.sender = sender,
                                                 !.outcome = "ok"]]
    /\ UNCHANGED <<seqVars, taskVars, chainVars, kickVars, priceVars, swapVars,
                   settleVars, snapVars, rewardVars, interest>>

\* Somebody sends the contract tokens: an ERC20 transfer, no call of the
\* contract.
tokenTransferIn(sender, token, amount) ==
    /\ taker.calls < MaxTakerCalls
    /\ amount > 0
    /\ taker.balance[token] + amount <= MaxTokenAmount
    /\ taker' = [taker EXCEPT !.balance[token] = @ + amount,
                              !.calls = @ + 1,
                              !.last = [NoCall EXCEPT !.fn = "transfer",
                                                      !.sender = sender,
                                                      !.outcome = "ok"]]
    /\ UNCHANGED <<seqVars, taskVars, chainVars, kickVars, priceVars, swapVars,
                   settleVars, snapVars, rewardVars, interest>>

InitTaker ==
    /\ InitSequencer
    /\ NoBatch
    /\ NoPrice
    /\ NoSwap
    /\ NoSettle
    /\ NoSnapshots
    /\ NoRewards
    /\ NoInterest
    /\ NoTaker
    /\ dryRun = FALSE
    /\ task = [t \in Tasks |-> [kind |-> "none", signer |-> "s1", pc |-> "start",
                                result |-> "none"]]

\* The inputs are drawn so that each way a call can end is reached without
\* repeating it for every value of the inputs it never reads: a call that
\* the modifier or a check stops, a take or a swap that reverts, and a take
\* that runs with every amount.
NextTaker ==
    \/ \E sender \in Senders, checks \in TakeChecks \ {"ok"} :
          takeWithAtomicSwap(sender, checks, 1, TRUE, 1, "aerodromeRouter",
                             "ok", 1, 1, 1)
    \/ \E sender \in Senders, takeOk \in BOOLEAN, result \in SwapResults :
          /\ ~takeOk \/ result # "ok"
          /\ takeWithAtomicSwap(sender, "ok", 1, takeOk, 1, "aerodromeRouter",
                                result, 1, 1, 1)
    \/ \E sender \in Senders, approvalAmount \in TokenAmounts,
          collateral \in TokenAmounts, router \in Routers :
          \E pulled \in RouterPulls(router, collateral),
             swapped \in TokenAmounts, paid \in TokenAmounts :
             takeWithAtomicSwap(sender, "ok", approvalAmount, TRUE, collateral,
                                router, "ok", pulled, swapped, paid)
    \/ \E sender \in Senders, validPool \in BOOLEAN, deadlineOk \in BOOLEAN,
          result \in SwapResults, payOk \in BOOLEAN :
          /\ ~validPool \/ ~deadlineOk \/ result # "ok" \/ ~payOk
          /\ atomicSwapCallback(sender, validPool, 1, deadlineOk,
                                "aerodromeRouter", result, 1, 1, payOk)
    \/ \E sender \in Senders, collateral \in TokenAmounts, router \in Routers :
          \E pulled \in RouterPulls(router, collateral), swapped \in TokenAmounts :
             atomicSwapCallback(sender, TRUE, collateral, TRUE, router, "ok",
                                pulled, swapped, TRUE)
    \/ \E sender \in Senders, token \in TakerTokens : recover(sender, token)
    \/ \E sender \in Senders, token \in TakerTokens, amount \in TokenAmounts :
          tokenTransferIn(sender, token, amount)

SpecTaker == InitTaker /\ [][NextTaker]_vars

(***************************************************************************)
(* Properties of the sequencer                                             *)
(***************************************************************************)

\* The nonces handed to the operations that went through queueTransaction,
\* in the order they were handed out: a retry of an operation is handed a
\* nonce again.
HandedToQueued(s) == SelectSeq(handed[s], LAMBDA h : h.id # 0)

\* C1: for every signer the nonces handed to the operations submitted
\* through the sequencer form a contiguous strictly increasing sequence,
\* none handed out twice and none skipped.
C1_HandedContiguous ==
    \A s \in Signers : \A k \in 2 .. Len(HandedToQueued(s)) :
        HandedToQueued(s)[k].nonce = HandedToQueued(s)[k - 1].nonce + 1

\* What the interleaving of concurrent operations never breaks: a nonce
\* handed out from the cache is one more than the nonce handed out before
\* it, and a nonce fetched from the chain is never one a transaction was
\* broadcast with.
C1_CachedContiguous ==
    \A s \in Signers :
        /\ \A k \in 2 .. Len(handed[s]) :
              handed[s][k].fetched \/ handed[s][k].nonce = handed[s][k - 1].nonce + 1
        /\ \A k \in 1 .. Len(handed[s]) :
              handed[s][k].nonce >= StartNonce(s) + handed[s][k].sent

\* C2: for any single signer transactions are broadcast in the order in which
\* their operations were submitted, and no operation is broadcast while an
\* operation submitted before it is still waiting for its turn.
C2_BroadcastFifo ==
    \A s \in Signers :
        /\ \A j, k \in 1 .. Len(broadcasts[s]) :
              j < k => broadcasts[s][j].id < broadcasts[s][k].id
        /\ \A t \in Tasks :
              (SignerOf(t) = s /\ op[t].state \in {"queued", "handed"})
                  => \A k \in 1 .. Len(broadcasts[s]) : broadcasts[s][k].id < op[t].id

\* Two tasks have queued on one signer; the first is broadcast and unconfirmed,
\* the second still waits, after an earlier broadcast of the signer.
C2_Witness ==
    \E s \in Signers :
        /\ Len(queue[s]) = 2
        /\ op[queue[s][1]].state = "inflight"
        /\ op[queue[s][2]].state = "queued"
        /\ Len(broadcasts[s]) >= 2

\* C3 as stated: at every moment at most one transaction per signer is
\* broadcast and not yet confirmed.
C3_OneInFlight ==
    \A s \in Signers : Cardinality(pendingTx[s]) <= 1

(***************************************************************************)
(* Properties of the kick engine                                           *)
(***************************************************************************)

KickSigner == task[KickTask].signer

Examined == {examined[k] : k \in 1 .. Len(examined)}
KickEntries == {kicks[k] : k \in 1 .. Len(kicks)}
Approvals == {approvals[k] : k \in 1 .. Len(approvals)}
HandedOut == {handed[KickSigner][k] : k \in 1 .. Len(handed[KickSigner])}
Broadcast == {broadcasts[KickSigner][k] : k \in 1 .. Len(broadcasts[KickSigner])}

\* The three conditions as the specification states them, in exact
\* arithmetic.
PassesFilters(e) ==
    /\ e.thresholdPrice >= e.lup
    /\ e.debt >= MinDebt
    /\ e.neutralPrice * PriceFactor >= LimitPrice * 100

\* C4, as stated: once the batch is over, a loan of the snapshot has been
\* kicked if and only if its threshold price is at least the LUP, its debt at
\* least minDebt and its neutral price times priceFactor at least the price.
C4_KickedIffFilters ==
    kpc = "done" =>
        \A e \in Examined :
            (\E k \in KickEntries : k.borrower = e.borrower /\ k.outcome = "kicked")
                <=> PassesFilters(e)

\* C4, read of the candidates: a loan is yielded as a kick candidate if and
\* only if its threshold price is at least the LUP, its debt at least minDebt
\* and its neutral price times priceFactor at least the price, and a kick
\* transaction is only ever queued or broadcast for a yielded candidate and
\* outside dry-run.  The filter multiplies doubles: for the neutral price
\* 1.40, the factor 0.95 and the price 1.33 the product comes out below the
\* price and the loan is filtered out.
C4_CandidateIffFilters ==
    /\ \A e \in Examined : e.yielded <=> PassesFilters(e)
    /\ \A k \in KickEntries :
          /\ \E e \in Examined : e.borrower = k.borrower /\ e.yielded
          /\ k.outcome \in {"pending", "kicked", "kickFailed"} => ~dryRun
    /\ \A b \in Broadcast :
          b.kind = "kick" =>
              \E e \in Examined : e.borrower = b.ref /\ PassesFilters(e)

\* C5: when a batch of handleKicks in which an allowance was granted is over,
\* however it ended, the allowance of the pool is zero.
C5_AllowanceZeroAfterBatch ==
    (kpc \in {"done", "threw"} /\ granted) => allowance = 0

\* C6: in dry-run mode nothing enters the nonce queue, no nonce is handed out
\* and no transaction is broadcast.
C6_DryRunNoTransactions ==
    dryRun =>
        \A s \in Signers :
            /\ queue[s] = <<>>
            /\ handed[s] = <<>>
            /\ broadcasts[s] = <<>>

Skipped == {k \in KickEntries : k.outcome \in {"noBalance", "approveFailed"}}

\* C7: for a candidate skipped because the balance is below its bond or
\* because its approval failed, no kick transaction is submitted and no
\* nonce is consumed: no transaction for the candidate has been broadcast
\* with a nonce of the signer.  A nonce handed to an operation that sent
\* nothing is not consumed.
C7_SkipConsumesNoNonce ==
    \A k \in Skipped :
        /\ \A h \in HandedOut : h.ref = k.borrower => h.kind # "kick"
        /\ \A b \in Broadcast : b.ref # k.borrower

\* What holds of a skipped candidate: no kick transaction is queued, handed
\* a nonce or broadcast for it; with the balance below the bond nothing at
\* all is submitted for it, while a failed approval has itself been through
\* the queue; and every approval or kick submitted found the balance at
\* least the bond.
C7_SkipSubmitsNoKick ==
    /\ \A k \in Skipped :
          /\ \A h \in HandedOut : h.ref = k.borrower => h.kind = "quoteApprove"
          /\ \A b \in Broadcast : b.ref = k.borrower => b.kind = "quoteApprove"
          /\ k.outcome = "noBalance" =>
                /\ \A h \in HandedOut : h.ref # k.borrower
                /\ \A a \in Approvals : a.borrower # k.borrower
          /\ k.outcome = "approveFailed" =>
                \E a \in Approvals : a.borrower = k.borrower /\ a.result = "failed"
    /\ \A k \in KickEntries :
          k.balance < k.liquidationBond => k.outcome \in {"noBalance", "dryRun", "error"}
    /\ \A a \in Approvals : a.balance >= a.liquidationBond

\* C8, as stated: every approval made before a kick is for
\* min(estimatedRemainingBond, balance) plus 1% of that amount.
C8_ApprovesMinOfEstimateAndBalance ==
    \A a \in Approvals :
        LET m == IF a.estimatedRemainingBond < a.balance
                 THEN a.estimatedRemainingBond ELSE a.balance
        IN a.amount = m + m \div 100

\* C8, amended: every approval made before a kick is for the estimated
\* remaining bond when that is below the balance and for the candidate's own
\* bond otherwise, plus 1% of that amount.
C8_ApprovesEstimateOrBond ==
    \A a \in Approvals :
        LET m == IF a.estimatedRemainingBond < a.balance
                 THEN a.estimatedRemainingBond ELSE a.liquidationBond
        IN a.amount = m + m \div 100

\* A confirmed approval for the candidate's bond alone, the estimate being
\* above a balance that is itself above the bond.
C8_Witness ==
    \E a \in Approvals :
        /\ a.estimatedRemainingBond > a.balance
        /\ a.balance > a.liquidationBond
        /\ a.result = "ok"

RECURSIVE SumOfMapBondsFrom(_)
SumOfMapBondsFrom(k) ==
    IF k > Len(borrowersSortedByBond)
    THEN 0
    ELSE loanMap[borrowersSortedByBond[k]] + SumOfMapBondsFrom(k + 1)

\* C9, as stated: the estimated remaining bond of the borrower at index i of
\* the sorted list is the sum of the bonds of the borrowers after index i.
C9_EstimateIsSumAfter ==
    \A e \in Examined : e.estimatedRemainingBond = SumOfMapBondsFrom(e.index + 1)

\* C9, amended: the estimated remaining bond of the borrower at index i is its
\* own bond as just read from the pool plus the sum of the bonds the loan map
\* holds for the borrowers after index i.
C9_EstimateIsOwnBondPlusSumAfter ==
    \A e \in Examined :
        e.estimatedRemainingBond = e.liquidationBond + SumOfMapBondsFrom(e.index + 1)

\* A first borrower of two whose bond is no longer the one in the loan map.
C9_Witness ==
    \E e \in Examined :
        /\ e.index < Len(borrowersSortedByBond)
        /\ e.liquidationBond # loanMap[e.borrower]
        /\ SumOfMapBondsFrom(e.index + 1) > 0

\* C10, as stated: no candidate is yielded after a candidate with a strictly
\* smaller current liquidation bond.
C10_YieldedByCurrentBond ==
    \A j, k \in 1 .. Len(examined) :
        (j < k /\ examined[j].yielded /\ examined[k].yielded) =>
            examined[j].liquidationBond >= examined[k].liquidationBond

\* C10, amended: borrowers are examined, and candidates yielded, in descending
\* order of the bond the loan map fetched at the start of the scan holds for
\* them, borrowers of equal bond in the order of the loan map.
C10_ExaminedByMapBond ==
    \A j, k \in 1 .. Len(examined) :
        j < k =>
            \/ loanMap[examined[j].borrower] > loanMap[examined[k].borrower]
            \/ /\ loanMap[examined[j].borrower] = loanMap[examined[k].borrower]
               /\ examined[j].borrower < examined[k].borrower

\* Two candidates yielded, the loan of the larger bond fetched second.
C10_Witness ==
    /\ Len(examined) >= 2
    /\ examined[1].yielded
    /\ examined[2].yielded
    /\ examined[1].borrower > examined[2].borrower
    /\ loanMap[examined[1].borrower] > loanMap[examined[2].borrower]

(***************************************************************************)
(* Properties of price resolution                                          *)
(***************************************************************************)

PriceResolved == priceOut.value.t # "none"

\* CoinGecko is configured and its request for the token succeeds: HTTP ok
\* and a body holding the token's price.
CoinGeckoSucceeds(token) ==
    /\ ApiKeyProvided(priceIn.apiKey)
    /\ ~priceIn.coinGecko[token].rejects
    /\ priceIn.coinGecko[token].ok
    /\ priceIn.coinGecko[token].body = << <<Num(CoinGeckoUsd(token))>> >>

\* Alchemy is configured for the token and answers with its USD price.
AlchemySucceeds(token) ==
    /\ priceIn.chainId = 8453
    /\ priceIn.rpcUrl = "https://base-mainnet.g.alchemy.com/v2/key"
    /\ priceIn.queryHasIds
    /\ priceIn.address[token] # "null"
    /\ priceIn.alchemy[token].ok
    /\ Len(priceIn.alchemy[token].data) > 0
    /\ \E k \in 1 .. Len(priceIn.alchemy[token].data[1].prices) :
          priceIn.alchemy[token].data[1].prices[k].currency = "USD"

\* C11: a market price is the value of the first source that succeeds, in the
\* order CoinGecko, Alchemy: CoinGecko's when CoinGecko succeeds, without
\* Alchemy being asked, and exactly Alchemy's when CoinGecko fails and Alchemy
\* succeeds.
C11_FirstSuccessfulSource ==
    (PriceResolved /\ priceIn.config = "query") =>
        /\ CoinGeckoSucceeds("collateral") =>
              /\ priceOut.value = Num(CoinGeckoUsd("collateral"))
              /\ priceOut.calls = << <<"coingecko", "collateral">> >>
        /\ (~CoinGeckoSucceeds("collateral") /\ AlchemySucceeds("collateral")) =>
              priceOut.value = Num(AlchemyUsd("collateral"))

\* C12: price resolution throws only when every configured source has failed,
\* and whenever a configured source can deliver the price, a price delivered
\* by such a source is what is returned.
C12_FailsOnlyWhenAllFail ==
    (PriceResolved /\ priceIn.config = "query") =>
        /\ priceOut.value.t = "throw" =>
              (~CoinGeckoSucceeds("collateral") /\ ~AlchemySucceeds("collateral"))
        /\ (CoinGeckoSucceeds("collateral") \/ AlchemySucceeds("collateral")) =>
              \/ /\ CoinGeckoSucceeds("collateral")
                 /\ priceOut.value = Num(CoinGeckoUsd("collateral"))
              \/ /\ AlchemySucceeds("collateral")
                 /\ priceOut.value = Num(AlchemyUsd("collateral"))

\* C13: the price of a pool-pair configuration, when one is returned, is the
\* collateral token's price divided by the quote token's price, each as
\* delivered by a source that succeeded for it.
C13_PoolPriceIsRatio ==
    (PriceResolved /\ priceIn.config = "pair" /\ priceOut.value.t # "throw") =>
        /\ priceOut.value.t = "num"
        /\ \/ CoinGeckoSucceeds("collateral")
                 /\ priceOut.value.num = CoinGeckoUsd("collateral")
           \/ AlchemySucceeds("collateral")
                 /\ priceOut.value.num = AlchemyUsd("collateral")
        /\ \/ CoinGeckoSucceeds("quote") /\ priceOut.value.den = CoinGeckoUsd("quote")
           \/ AlchemySucceeds("quote") /\ priceOut.value.den = AlchemyUsd("quote")


(***************************************************************************)
(* Properties of the Aerodrome swap.                                       *)
(***************************************************************************)

SwapTasks == {t \in Tasks : task[t].kind = "swap"}

\* The swap found its pool and computed its minimum output.
PastStep2(t) ==
    task[t].pc \in {"step3", "allowanceRead", "awaitApprove", "step4", "awaitSwap"}

\* Detection with no pool type given: the list of probes answered and, when
\* something was found, what was found.  The stable pool is asked for only
\* when there is no volatile pool, and a pool found without it is volatile.
VolatileFirst(in, probes, found, isStable, poolAddress) ==
    /\ probes[1] = "volatile"
    /\ Len(probes) = 2 => in.volatilePool = ZeroAddress
    /\ found => (Len(probes) = 2 <=> in.volatilePool = ZeroAddress)
    /\ Len(probes) = 2 => probes[2] = "stable"
    /\ (found /\ in.volatilePool # ZeroAddress)
          => ~isStable /\ poolAddress = in.volatilePool
    /\ (found /\ in.volatilePool = ZeroAddress)
          => isStable /\ poolAddress = in.stablePool /\ in.stablePool # ZeroAddress

\* C14: with no pool type given, the swap and the quote provider probe the
\* volatile pool first and the stable pool only when there is no volatile pool;
\* when both pools exist the volatile pool is used.
C14_VolatileProbedFirst ==
    \A t \in SwapTasks :
        /\ (swap[t].poolType = "undefined" /\ swap[t].probes # <<>>)
              => VolatileFirst(swap[t], swap[t].probes,
                               swap[t].poolAddress # ZeroAddress,
                               swap[t].isStable, swap[t].poolAddress)
        /\ (swap[t].poolType = "undefined" /\ swap[t].poolInfo.probes # <<>>)
              => VolatileFirst(swap[t], swap[t].poolInfo.probes,
                               swap[t].poolInfo.exists, swap[t].poolInfo.isStable,
                               swap[t].poolInfo.poolAddress)

\* Both pools exist, no type was given, and both the swap and the quote
\* provider settled on one of them.
C14_Witness ==
    \E t \in SwapTasks :
        /\ swap[t].poolType = "undefined"
        /\ swap[t].volatilePool # ZeroAddress
        /\ swap[t].stablePool # ZeroAddress
        /\ PastStep2(t)
        /\ swap[t].poolInfo.exists

\* C15: the minimum output of a swap is the quoted output times (10000 - bps)
\* over 10000, rounded down, bps being the slippage percentage times 100.
C15_MinAmountOutRoundedDown ==
    \A t \in SwapTasks : PastStep2(t) =>
        LET pct == swap[t].slippagePercentage
            quote == swap[t].expectedAmountOut
            min == swap[t].minAmountOut
        IN \E bps \in 0 .. 10000 :
              /\ bps * pct.den = pct.num * 100
              /\ min * 10000 <= quote * (10000 - bps)
              /\ quote * (10000 - bps) < (min + 1) * 10000

\* A swap whose share of the quote is not whole: 12345 at 0.5% leaves
\* 12283.275, carried as 12283.
C15_Witness ==
    \E t \in SwapTasks :
        /\ PastStep2(t)
        /\ swap[t].expectedAmountOut = 12345
        /\ swap[t].slippagePercentage = [num |-> 1, den |-> 2]
        /\ swap[t].minAmountOut = 12283

\* C20 as stated: once a swap that approved the router has finished, the
\* router's allowance is zero again.
C20_RouterAllowanceZeroAfterSwap ==
    \A t \in SwapTasks :
        (task[t].pc = "done" /\ swap[t].approved)
            => routerAllowance[SignerOf(t)] = 0


(***************************************************************************)
(* Properties of the confirmation waits.                                   *)
(***************************************************************************)

\* C16 as stated: every wait for a confirmation is bounded by a timeout, so
\* whatever transaction is in flight, its callback races tx.wait() against a
\* timer; and an operation whose timer expired failed and was handed no
\* further nonce.
C16_EveryWaitBounded ==
    \A t \in Tasks :
        /\ op[t].state = "inflight" => ConfirmationWait(op[t].kind) = "race"
        /\ op[t].error = "timeout" => op[t].state = "failed" /\ ~op[t].retried


(***************************************************************************)
(* Properties of the retry after a nonce mismatch.                         *)
(***************************************************************************)

\* The nonces handed to operation id of signer s, in order.
HandingsOf(s, id) == SelectSeq(handed[s], LAMBDA h : h.id = id)

\* C17: an operation rejected for its nonce is retried once, with the cache
\* discarded and the nonce read from the chain again; an operation that failed
\* in any other way, or was rejected for its nonce a second time, is not
\* retried.
C17_StateRetriedOnce ==
    \A t \in Tasks : op[t].state \in {"handed", "inflight", "ok", "failed"} =>
        LET hs == HandingsOf(SignerOf(t), op[t].id) IN
        /\ Len(hs) = IF op[t].retried THEN 2 ELSE 1
        /\ op[t].retried => hs[2].fetched /\ hs[2].kind = hs[1].kind
        /\ (op[t].state = "failed" /\ op[t].error # "nonce") =>
              hs[Len(hs)].nonce = op[t].nonce

C17_StepRetry ==
    \A t \in Tasks :
        /\ (op[t].state = "handed" /\ op'[t].state = "handed"
                /\ op'[t].nonce # op[t].nonce)
              => /\ op[t].nonce # chainNonce[SignerOf(t)]
                 /\ ~op[t].retried /\ op'[t].retried
                 /\ op'[t].id = op[t].id
                 /\ op'[t].nonce = chainNonce[SignerOf(t)]
                 /\ nonceCache'[SignerOf(t)] = <<chainNonce[SignerOf(t)]>>
        /\ (op[t].state = "handed" /\ op'[t].state = "failed")
              => op'[t].nonce = op[t].nonce /\ handed' = handed

C17_RetriedExactlyOnce == [](C17_StateRetriedOnce) /\ [][C17_StepRetry]_vars

\* An operation was rejected for its nonce, retried with the chain's nonce,
\* rejected again and failed, two nonces having been handed to it.
C17_Witness ==
    \E t \in Tasks :
        /\ op[t].retried
        /\ op[t].state = "failed"
        /\ op[t].error = "nonce"
        /\ Len(HandingsOf(SignerOf(t), op[t].id)) = 2


(***************************************************************************)
(* Properties of settlement.                                               *)
(***************************************************************************)

CallsOfAttempt(n) == {c \in settle.calls : c.attempt = n}

\* C18: one settlement attempt issues at most maxIterations settlement calls,
\* and no settlement call is issued for an auction the protocol has reported
\* settled.
C18_CallsWithinBudget ==
    /\ \A n \in 1 .. MaxAttempts :
          Cardinality(CallsOfAttempt(n)) <= settle.maxIterations
    /\ \A c \in settle.calls : ~c.settled /\ c.iteration <= settle.maxIterations
    /\ auction.settled => settle.pc = "idle" /\ ~ENABLED settleCall

\* A first attempt used its whole budget of at least two calls and a later
\* attempt settled the auction.
C18_Witness ==
    /\ settle.maxIterations >= 2
    /\ Cardinality(CallsOfAttempt(1)) = settle.maxIterations
    /\ CallsOfAttempt(2) # {}
    /\ auction.settled

\* C19: every settlement call was issued with no collateral remaining, debt
\* remaining and the auction at least minAuctionAge old; and an auction with
\* no collateral and some debt is taken up once it is that old.
C19_CallsOnlyWhenEligible ==
    /\ \A c \in settle.calls :
          /\ c.collateralRemaining = 0
          /\ c.debtRemaining > 0
          /\ c.age >= settle.minAuctionAge
    /\ (/\ ~auction.settled
        /\ auction.collateralRemaining = 0
        /\ auction.debtRemaining > 0
        /\ settle.incentive)
          => (NeedsSettlement(auction, settle)
                 <=> auction.age >= settle.minAuctionAge)

\* The auction was skipped as too young and, older, received settlement calls.
C19_Witness ==
    /\ settle.skipped = "tooYoung"
    /\ settle.minAuctionAge = 2
    /\ \E c \in settle.calls : c.age = 2


(***************************************************************************)
(* Properties of a batch of kicks with failures in it.                     *)
(***************************************************************************)

FailedOutcomes == {"approveFailed", "kickFailed"}

\* C25: a failed approval or a failed kick ends the work on its candidate and
\* nothing else: the loop goes on with the next borrower, a batch that reaches
\* its end has examined every borrower, and no candidate is taken up or has a
\* kick broadcast twice.
C25_StateConfined ==
    /\ \A j, k \in 1 .. Len(kicks) : kicks[j].borrower = kicks[k].borrower => j = k
    /\ \A j, k \in 1 .. Len(broadcasts[KickSigner]) :
          (/\ broadcasts[KickSigner][j].kind = "kick"
           /\ broadcasts[KickSigner][k].kind = "kick"
           /\ broadcasts[KickSigner][j].ref = broadcasts[KickSigner][k].ref) => j = k
    /\ kpc = "done" => Len(examined) = Len(borrowersSortedByBond)

C25_StepGoesOn ==
    (/\ kicks' # kicks
     /\ kicks'[Len(kicks')].outcome \in FailedOutcomes)
        => /\ kpc' = "scan"
           /\ i' = i + 1
           /\ borrowersSortedByBond[i] = kicks'[Len(kicks')].borrower

C25_FailureConfinedToCandidate == [](C25_StateConfined) /\ [][C25_StepGoesOn]_vars

\* The kick of the first candidate was broadcast and reverted, the second
\* candidate was kicked all the same, and the batch reached its end.
C25_Witness ==
    /\ kpc = "done"
    /\ Len(kicks) = 2
    /\ kicks[1].outcome = "kickFailed"
    /\ \E b \in Broadcast : b.kind = "kick" /\ b.ref = kicks[1].borrower
    /\ kicks[2].outcome = "kicked"


Submitted == {k \in KickEntries : k.outcome \in {"pending", "kicked", "kickFailed"}}

\* C26: a kick is submitted for a candidate only when the balance read was at
\* least its bond and the allowance read was at least its bond or an approval
\* of at least its bond was confirmed for it.
C26_KickOnlyWhenCovered ==
    \A k \in Submitted :
        /\ k.balance >= k.liquidationBond
        /\ \/ k.allowance >= k.liquidationBond
           \/ \E a \in Approvals :
                 /\ a.borrower = k.borrower
                 /\ a.result = "ok"
                 /\ a.amount >= k.liquidationBond

\* One batch kicked a candidate after approving for it and another one on the
\* allowance that was left.
C26_Witness ==
    /\ \E k \in Submitted :
          /\ k.outcome = "kicked"
          /\ k.allowance < k.liquidationBond
          /\ \E a \in Approvals : a.borrower = k.borrower /\ a.result = "ok"
    /\ \E k \in Submitted :
          /\ k.outcome = "kicked"
          /\ k.allowance >= k.liquidationBond
          /\ \A a \in Approvals : a.borrower # k.borrower


\* The batch is over, it started with no allowance, its first approval found
\* the balance above the estimated remaining bond, and every candidate taken
\* up was kicked.
RunOfKicksCovered ==
    /\ kpc = "done"
    /\ kicks # <<>>
    /\ kicks[1].allowance = 0
    /\ approvals # <<>>
    /\ approvals[1].estimatedRemainingBond < approvals[1].balance
    /\ \A k \in KickEntries : k.outcome = "kicked"

\* C27 as stated: such a batch issued exactly one approval before the closing
\* reset to zero.
C27_OneApprovalPerBatch ==
    RunOfKicksCovered => Len(approvals) = 1


\* Every bond read at examination was the one the loan snapshot held.
BondsAsInSnapshot ==
    \A e \in Examined : e.liquidationBond = loanMap[e.borrower]

\* C27, with the bonds read when the loans were examined being those of the
\* loan snapshot the allowance was sized from: such a batch issued exactly
\* one approval before the closing reset.  It holds of a quote token of 18
\* decimals; with fewer decimals the allowance read is taken for too low at
\* every kick and each kick gets an approval of its own.
C27_OneApprovalWhenBondsAsInSnapshot ==
    (RunOfKicksCovered /\ BondsAsInSnapshot) => Len(approvals) = 1


(***************************************************************************)
(* Properties of Aerodrome pool selection and quoting.                     *)
(***************************************************************************)

\* The swap has been through its step 1 with the factory answering every call.
Probed(t) ==
    /\ swap[t].probes # <<>>
    /\ ~(swap[t].failedStep = "pool" /\ swap[t].error = "call revert exception")

\* The quote provider was asked and its calls to the factory were answered.
Quoted(t) ==
    /\ swap[t].quote.asked
    /\ initialize(swap[t].quote.env)
    /\ ~PoolCallRejected(swap[t], swap[t].quote.env.poolCallRejects)

VariantOf(isStable) == IF isStable THEN "stable" ELSE "volatile"

\* C28: for every combination of existing pools and every hint, getQuote and
\* swapWithAerodromeRouter select the same pool variant or both find no pool.
C28_SameVariantSelected ==
    \A t \in SwapTasks : (Quoted(t) /\ Probed(t)) =>
        /\ swap[t].quote.error = "No Aerodrome pool"
              <=> swap[t].poolAddress = ZeroAddress
        /\ swap[t].quote.success =>
              /\ swap[t].poolAddress # ZeroAddress
              /\ swap[t].quote.poolType = VariantOf(swap[t].isStable)

\* Both pools exist, no hint: both settle on the volatile pool.
C28_Witness ==
    \E t \in SwapTasks :
        /\ Quoted(t) /\ Probed(t)
        /\ swap[t].poolType = "undefined"
        /\ swap[t].volatilePool # ZeroAddress
        /\ swap[t].stablePool # ZeroAddress
        /\ swap[t].quote.success
        /\ swap[t].quote.poolType = "volatile"
        /\ ~swap[t].isStable

\* Detection with a pool type given: one probe, of that type, and a pool found
\* only if the pool of that type exists.
OnlyGivenType(in, probes, found, isStable) ==
    /\ probes = <<in.poolType>>
    /\ found <=> getPool(in, in.poolType = "stable") # ZeroAddress
    /\ found => (isStable <=> in.poolType = "stable")

\* C29: with a pool type given, detection checks that type only: when the pool
\* of that type does not exist the result is no pool, whatever exists of the
\* other type.
C29_NoFallbackFromGivenType ==
    \A t \in SwapTasks : swap[t].poolType # "undefined" =>
        /\ Probed(t) =>
              OnlyGivenType(swap[t], swap[t].probes,
                            swap[t].poolAddress # ZeroAddress, swap[t].isStable)
        /\ swap[t].poolInfo.probes # <<>> =>
              OnlyGivenType(swap[t], swap[t].poolInfo.probes,
                            swap[t].poolInfo.exists, swap[t].poolInfo.isStable)
        /\ (Quoted(t) /\ getPool(swap[t], swap[t].poolType = "stable") = ZeroAddress)
              => swap[t].quote.error = "No Aerodrome pool"

\* The stable pool was asked for, only the volatile pool exists, and the
\* swap, poolExists and getQuote all found no pool.
C29_Witness ==
    \E t \in SwapTasks :
        /\ swap[t].poolType = "stable"
        /\ swap[t].stablePool = ZeroAddress
        /\ swap[t].volatilePool # ZeroAddress
        /\ swap[t].probes = <<"stable">>
        /\ task[t].pc = "done" /\ task[t].result = "failed"
        /\ swap[t].poolInfo.probes = <<"stable">> /\ ~swap[t].poolInfo.exists
        /\ Quoted(t) /\ swap[t].quote.error = "No Aerodrome pool"

\* Something getQuote cannot quote through.
QuoteImpossible(in, env) ==
    \/ ~env.isInitialized /\ env.routerCode \in {"0x", "throws"}
    \/ ~env.isInitialized /\ env.factoryCode \in {"0x", "throws"}
    \/ ~env.isInitialized /\ ~env.defaultFactoryOk
    \/ PoolCallRejected(in, env.poolCallRejects)
    \/ (in.poolType = "undefined" /\ in.volatilePool = ZeroAddress
           /\ in.stablePool = ZeroAddress)
    \/ (in.poolType = "volatile" /\ in.volatilePool = ZeroAddress)
    \/ (in.poolType = "stable" /\ in.stablePool = ZeroAddress)
    \/ env.amounts \in {"zero", "throws"}
    \/ ~env.decimalsOk

\* C30: getQuote reports success only with a positive output and the variant
\* of the pool quoted; when the provider cannot be initialized, no pool exists,
\* the router returns zero or a call fails, it returns a failure with a reason,
\* and it never throws.
C30_QuoteSuccessOrReason ==
    \A t \in SwapTasks : swap[t].quote.asked =>
        LET q == swap[t].quote IN
        /\ ~q.threw
        /\ q.success =>
              /\ q.dstAmount > 0
              /\ q.poolType \in {"stable", "volatile"}
              /\ getPool(swap[t], q.poolType = "stable") # ZeroAddress
              /\ swap[t].poolType # "undefined" => q.poolType = swap[t].poolType
        /\ ~q.success => q.error # "none" /\ q.dstAmount = 0
        /\ QuoteImpossible(swap[t], q.env) <=> ~q.success

\* A quote for the stable pool given by a provider that initialized itself on
\* the way.
C30_Witness ==
    \E t \in SwapTasks :
        /\ swap[t].quote.success
        /\ ~swap[t].quote.env.isInitialized
        /\ swap[t].quote.dstAmount = 12345
        /\ swap[t].quote.poolType = "stable"


(***************************************************************************)
(* Properties of the pool snapshot cache                                   *)
(***************************************************************************)

\* The callers whose request is with the subgraph.
RequestsInFlight == {t \in Tasks : snapCall[t].pc = "awaitOwn"}

\* C23 as stated: at most one pool-snapshot request to the subgraph is in
\* flight at any time, under any interleaving of getPoolSnapshotsCached and
\* clearPoolSnapshotCache calls.
C23_AtMostOneRequestInFlight == Cardinality(RequestsInFlight) <= 1

\* A call is running: it has been made and has neither returned nor thrown.
SnapshotCallRunning(t) == snapCall[t].pc \notin {"idle", "returned", "rejected"}

\* C24 as stated: every call to getPoolSnapshotsCached eventually returns
\* (or throws what the subgraph threw) when each subgraph request completes,
\* and the map it returns leaves out the addresses the subgraph has no
\* snapshot for.
C24_EveryCallReturns ==
    /\ \A t \in Tasks :
         SnapshotCallRunning(t) ~> snapCall[t].pc \in {"returned", "rejected"}
    /\ [](\A t \in Tasks :
            snapCall[t].pc = "returned" => snapCall[t].result \subseteq KnownPools)


(***************************************************************************)
(* Properties of the reward collection                                     *)
(***************************************************************************)

\* This step is a call of collectBondFromPool.
BondCollected == Len(bondCalls') = Len(bondCalls) + 1

\* The auctions that lock a bond: kicked by the signer and not settled.
OpenAuctions(auctions) ==
    {a \in BondAuctions : auctions[a].state \in {"kicked", "taken"}}

SettledAuctions(auctions) ==
    {a \in BondAuctions : auctions[a].state = "settled"}

C21_StepAsStated ==
    BondCollected =>
        LET call == bondCalls'[Len(bondCalls')]
        IN  /\ (kickerInfo.claimable = 0 \/ kickerInfo.locked > 0) =>
                   call.withdrawn = 0
            /\ (kickerInfo.claimable > 0 /\ kickerInfo.locked = 0) =>
                   call.withdrawn > 0

BondWithdrawn ==
    LET RECURSIVE upTo(_)
        upTo(k) == IF k = 0 THEN 0 ELSE bondCalls[k].withdrawn + upTo(k - 1)
    IN upTo(Len(bondCalls))

\* The pool's books: the locked bond is that of the auctions not settled,
\* and what was withdrawn and what is claimable add up to the bonds of the
\* settled auctions.
BondBooks ==
    /\ kickerInfo.locked = BondsOf(OpenAuctions(liquidations))
    /\ BondWithdrawn + kickerInfo.claimable = BondsOf(SettledAuctions(liquidations))

C21_StepAmended ==
    BondCollected =>
        LET call == bondCalls'[Len(bondCalls')]
            open == OpenAuctions(liquidations)
            left == OpenAuctions(liquidations')
            released == kickerInfo.claimable + BondsOf(call.settledNow)
        IN  /\ call.settledNow = open \ left
            /\ SettledAuctions(liquidations') =
                   SettledAuctions(liquidations) \cup call.settledNow
            /\ \A a \in call.settledNow :
                   /\ call.enabled
                   /\ liquidations[a].state = "taken"
                   /\ liquidations[a].age >= call.minAuctionAge
            /\ (open = {} /\ kickerInfo.claimable = 0) => call.withdrawn = 0
            /\ left # {} =>
                   /\ call.withdrawn = 0
                   /\ kickerInfo'.claimable = released
            /\ (open # {} /\ ~call.enabled) => call.withdrawn = 0
            /\ (open # {} /\ \A a \in open : liquidations[a].state = "kicked"
                                               \/ liquidations[a].age < call.minAuctionAge) =>
                   call.withdrawn = 0
            /\ (left = {} /\ released > 0) =>
                   /\ call.withdrawn = released
                   /\ kickerInfo'.claimable = 0
            /\ call.withdrawn > 0 =>
                   /\ left = {}
                   /\ SettledAuctions(liquidations') # {}

HeardForSigner(index) ==
    {k \in 1 .. Len(lpEvents) :
        /\ lpEvents[k].heard
        /\ lpEvents[k].event.index = index
        /\ \/ /\ lpEvents[k].event.taker = LpSigner
              /\ lpEvents[k].event.lpAwardedTaker > 0
           \/ /\ lpEvents[k].event.kicker = LpSigner
              /\ lpEvents[k].event.lpAwardedKicker > 0}

\* C22: the LP map of the collector has an entry, a positive one, exactly
\* for the buckets in which an event heard while subscribed awarded LP to
\* its own signer; bucket takes that reward other accounts leave it as it
\* was, and empty when there was nothing else.
C22_TracksOnlyOwnRewards ==
    /\ \A index \in BucketIndexes :
         index \in DOMAIN lpMap <=> HeardForSigner(index) # {}
    /\ \A index \in DOMAIN lpMap :
         /\ lpMap[index] > 0
         /\ lpMap[index] <= 2 * Cardinality(HeardForSigner(index))

\* The collector heard a bucket take that rewarded other accounts only and
\* has no entry for its bucket, and it heard one that rewarded its signer as
\* the kicker of an auction another account took from, and tracks it.
C22_Witness ==
    /\ Len(lpEvents) = MaxLpEvents
    /\ \E k \in 1 .. Len(lpEvents) :
         /\ lpEvents[k].heard
         /\ lpEvents[k].event.taker # LpSigner
         /\ lpEvents[k].event.kicker # LpSigner
         /\ lpEvents[k].event.lpAwardedTaker > 0
         /\ lpEvents[k].event.index \notin DOMAIN lpMap
    /\ \E k \in 1 .. Len(lpEvents) :
         /\ lpEvents[k].heard
         /\ lpEvents[k].event.taker # LpSigner
         /\ lpEvents[k].event.kicker = LpSigner
         /\ lpEvents[k].event.index \in DOMAIN lpMap


(***************************************************************************)
(* Properties of the swap: order of its transactions, what it reports      *)
(***************************************************************************)

\* The transactions of a kind that the swaps of a signer were handed a nonce
\* for, and those that were broadcast.
HandedOfKind(s, kind) == {k \in 1 .. Len(handed[s]) : handed[s][k].kind = kind}
BroadcastOfKind(s, kind) ==
    {k \in 1 .. Len(broadcasts[s]) : broadcasts[s][k].kind = kind}

\* The task's operation of the kind is queued in this step.
Queues(t, kind) ==
    /\ op[t].state # "queued"
    /\ op'[t].state = "queued"
    /\ op'[t].kind = kind

C31_StepApprovalBeforeSwap ==
    \A t \in SwapTasks :
        LET s == SignerOf(t) IN
        /\ Queues(t, "approveRouter") => routerAllowance[s] < swap[t].amount
        /\ Queues(t, "swap") =>
              /\ routerAllowance[s] >= swap[t].amount
              /\ swap[t].currentAllowance < swap[t].amount
                    => /\ swap[t].approved
                       /\ BroadcastOfKind(s, "approveRouter") # {}
              /\ swap[t].currentAllowance >= swap[t].amount => ~swap[t].approved

\* C31: the swap transaction is queued only once the router's allowance
\* covers the amount.  When the allowance is below the amount the approval is
\* queued, and it was broadcast and confirmed before the swap is queued, so
\* that it takes the lower nonce; when the allowance covers the amount no
\* approval is queued.  It holds of one call at a time; of two calls of one
\* signer the second may queue its approval on an allowance it read before
\* the first call's approval was confirmed.
C31_ApprovalBeforeSwap == [][C31_StepApprovalBeforeSwap]_vars

\* The steps of the swap in their order.
StepRank(step) ==
    CASE step = "pool" -> 1
      [] step = "quote" -> 2
      [] step = "approval" -> 3
      [] step = "submission" -> 4
      [] step = "confirmation" -> 5
      [] OTHER -> 6

\* C32: a swap that failed in pool discovery, quoting, approval, submission
\* or confirmation ends with success = false and an error text, and nothing
\* of a later step was done: no transaction before the approval step, no
\* swap transaction when the approval failed, no swap broadcast when its
\* submission failed.  A swap ends with success = true only when its
\* transaction was broadcast and confirmed, or when the two tokens are
\* identical, and then no transaction was queued.  A call that throws does
\* so before pool discovery: it has looked for no pool and queued nothing.
C32_FailureReportedAndFinal ==
    \A t \in SwapTasks :
        LET s == SignerOf(t) IN
        /\ task[t].result = "threw"
              => /\ swap[t].failedStep = "none"
                 /\ swap[t].probes = <<>>
                 /\ handed[s] = <<>> /\ queue[s] = <<>>
        /\ swap[t].failedStep # "none"
              => /\ task[t].pc = "done"
                 /\ task[t].result = "failed"
                 /\ swap[t].error # "none"
                 /\ op[t].state = "none"
        /\ (task[t].pc = "done" /\ task[t].result = "failed")
              => swap[t].failedStep # "none" /\ swap[t].error # "none"
        /\ StepRank(swap[t].failedStep) <= 2
              => /\ HandedOfKind(s, "approveRouter") = {}
                 /\ HandedOfKind(s, "swap") = {}
                 /\ swap[t].currentAllowance = -1
        /\ StepRank(swap[t].failedStep) = 3 => HandedOfKind(s, "swap") = {}
        /\ (swap[t].failedStep = "submission") => BroadcastOfKind(s, "swap") = {}
        /\ (task[t].pc = "done" /\ task[t].result = "ok")
              => \/ /\ swap[t].sameToken
                    /\ handed[s] = <<>>
                    /\ queue[s] = <<>>
                    /\ swap[t].currentAllowance = -1
                 \/ /\ ~swap[t].sameToken
                    /\ BroadcastOfKind(s, "swap") # {}
                    /\ swap[t].error = "none"
                    /\ \A k \in BroadcastOfKind(s, "swap") :
                          /\ broadcasts[s][k].id \notin pendingTx[s]
                          /\ broadcasts[s][k].id \notin timedOut[s]

\* A swap that failed waiting for the confirmation of its transaction after
\* its approval had gone through.
C32_Witness ==
    \E t \in SwapTasks :
        /\ task[t].pc = "done"
        /\ task[t].result = "failed"
        /\ swap[t].failedStep = "confirmation"
        /\ swap[t].approved
        /\ BroadcastOfKind(SignerOf(t), "swap") # {}


(***************************************************************************)
(* Properties of the pool-pair price                                       *)
(***************************************************************************)

\* The ratio of the two prices one source gives, when it gives both.
RatioOf(collateralPrice, quotePrice) ==
    IF collateralPrice.t = "throw" \/ quotePrice.t = "throw"
    THEN {}
    ELSE {Divide(collateralPrice, quotePrice)}

CoinGeckoRatio ==
    RatioOf(CoinGeckoPrice(priceIn.coinGecko["collateral"]),
            CoinGeckoPrice(priceIn.coinGecko["quote"]))

AlchemyRatio ==
    RatioOf(getPriceFromAlchemy(priceIn.alchemy["collateral"], priceIn.chainId,
                                priceIn.rpcUrl),
            getPriceFromAlchemy(priceIn.alchemy["quote"], priceIn.chainId,
                                priceIn.rpcUrl))

\* C33 as stated: the price of a pair is what CoinGecko answered for the
\* collateral divided by what CoinGecko answered for the quote token, or the
\* same ratio of the two Alchemy prices, never one price of each source.
C33_BothPricesFromOneSource ==
    (priceIn.config = "pair" /\ priceOut.value.t \notin {"none", "throw"})
        => priceOut.value \in CoinGeckoRatio \cup AlchemyRatio


(***************************************************************************)
(* Properties of the interest update                                       *)
(***************************************************************************)

InterestTasks == {t \in Tasks : task[t].kind = "updateInterest"}

\* The update of the task went as far as estimating the gas: it attempted
\* the interest update.
AttemptedUpdate(t) == interest[t].gas # "none"

\* C34 as stated: updateInterest is submitted only for a pool whose last
\* interest update is more than one week old; at a staleness of one week or
\* less the call ends with updated = false and nothing is estimated, queued
\* or sent.
C34_UpdateOnlyWhenOlderThanWeek ==
    \A t \in InterestTasks :
        (interest[t].read = "ok" /\ interest[t].timeSinceUpdate <= ONE_WEEK_SECONDS)
            => /\ ~AttemptedUpdate(t)
               /\ op[t].kind # "updateInterest"
               /\ task[t].pc = "done"
               /\ task[t].result # "updated"

\* C35 as stated: outside dry-run, for a pool both functions read at the
\* same staleness, isInterestStale is true exactly when
\* updatePoolInterestIfStale attempts the update.
C35_StaleIffUpdateAttempted ==
    \A t \in InterestTasks :
        (/\ ~dryRun
         /\ interest[t].read = "ok"
         /\ interest[t].isStale \in {"true", "false"})
            => (interest[t].isStale = "true" <=> AttemptedUpdate(t))

\* C36: the gas is estimated before the queue is entered.  An update in the
\* queue has its estimate; an update whose estimate failed ended with
\* updated = false, was never queued and was handed no nonce, so the signer
\* was handed at most as many nonces as estimates succeeded, and broadcast
\* no more.
C36_NoNonceWhenEstimateFails ==
    /\ \A t \in InterestTasks :
         /\ op[t].kind = "updateInterest" => interest[t].gas = "ok"
         /\ task[t].pc = "await" => interest[t].gas = "ok"
         /\ interest[t].gas = "failed"
               => /\ task[t].pc = "done"
                  /\ task[t].result = "error"
                  /\ op[t] = NoOp
    /\ \A s \in Signers :
         LET estimated == {t \in InterestTasks :
                              SignerOf(t) = s /\ interest[t].gas = "ok"}
         IN  /\ Len(handed[s]) <= Cardinality(estimated)
             /\ Len(broadcasts[s]) <= Cardinality(estimated)
             /\ Len(queue[s]) <= Cardinality(estimated)

\* One update failed at its gas estimate while another of the same signer
\* was broadcast.
C36_Witness ==
    \E t, u \in InterestTasks :
        /\ interest[t].gas = "failed"
        /\ task[t].result = "error"
        /\ interest[u].gas = "ok"
        /\ Len(broadcasts[SignerOf(u)]) = 1


(***************************************************************************)
(* Freshness of the snapshots returned                                     *)
(***************************************************************************)

\* The call of the task returns in this step.
SnapshotCallReturns(t) ==
    /\ snapCall'[t] # snapCall[t]
    /\ snapCall'[t].pc = "returned"

C37_StepReturnsFresh ==
    \A t \in Tasks :
        SnapshotCallReturns(t) =>
            /\ \A address \in snapCall'[t].result : snapshotCache[address] = "fresh"
            /\ \A k \in 1 .. Len(snapCall'[t].addresses) :
                  snapshotCache[snapCall'[t].addresses[k]] = "fresh"
            /\ UNCHANGED snapshotCache

\* C37: every snapshot a call of getPoolSnapshotsCached returns is unexpired
\* when the call checks for the last time and returns: all the addresses
\* asked for have an entry stored within the last CACHE_TTL_MS, and an
\* expired entry is only returned after a request has replaced it.
C37_ReturnedSnapshotsUnexpired == [][C37_StepReturnsFresh]_vars

\* A call that had to await a request has returned the snapshot of a pool
\* while another caller's entry of that pool has since expired.
C37_Witness ==
    \E t \in Tasks :
        /\ snapCall[t].pc = "returned"
        /\ snapCall[t].settled = "ok"
        /\ snapCall[t].result # {}
        /\ \E address \in snapCall[t].result : snapshotCache[address] = "expired"


(***************************************************************************)
(* Properties of AerodromeKeeperTaker                                      *)
(***************************************************************************)

\* This step is a call of the function that went through.
TakerCallDone(fn) ==
    /\ taker'.calls # taker.calls
    /\ taker'.last.fn = fn
    /\ taker'.last.outcome = "ok"

C38_StepLeavesNothing ==
    TakerCallDone("takeWithAtomicSwap") =>
        /\ taker'.poolAllowance = 0
        /\ taker'.balance["quote"] = 0
        /\ taker'.ownerBalance["quote"] =
               taker.ownerBalance["quote"] + taker.balance["quote"]
                   + taker'.last.swapped - taker'.last.paid
        /\ taker'.balance["collateral"] =
               taker.balance["collateral"] + taker'.last.collateral
                   - taker'.last.pulled
        /\ taker'.last.router = "aerodromeRouter" =>
               taker'.balance["collateral"] = taker.balance["collateral"]
        /\ taker'.ownerBalance["collateral"] = taker.ownerBalance["collateral"]

\* C38: after a takeWithAtomicSwap that went through, the contract's
\* quote-token allowance to the pool is zero and it holds no quote token;
\* all the quote token it held after the take, what it had before (sent to
\* it, or left by a callback that another address's take ran) plus what the
\* swap brought less what the pool pulled, is with the owner.  Collateral
\* stays with the contract as far as the router did not pull it: none with
\* the Aerodrome router.
C38_TakeLeavesNoAllowanceNoBalance == [][C38_StepLeavesNothing]_vars

\* A take went through in which the pool pulled less than was approved to it
\* and the swap brought more than the pool pulled: there was an allowance to
\* reset and quote token to send to the owner.
C38_Witness ==
    /\ taker.last.fn = "takeWithAtomicSwap"
    /\ taker.last.outcome = "ok"
    /\ taker.last.paid < taker.last.approved
    /\ taker.last.paid < taker.last.swapped
    /\ taker.poolAllowance = 0
    /\ taker.ownerBalance["quote"] > 0

\* The contract's balances and allowance, and what the owner got from it.
TakerHoldings(state) ==
    <<state.balance, state.ownerBalance, state.poolAllowance, state.routerAllowance>>

\* What takeWithAtomicSwap and recover do for their caller: the approval of
\* the pool and the tokens sent to the owner.
TakerEffects(state) == <<state.ownerBalance, state.poolAllowance>>

C39_StepOnlyOwnerOrFactory ==
    /\ (/\ taker'.calls # taker.calls
        /\ taker'.last.fn \in {"takeWithAtomicSwap", "recover"}) =>
           /\ taker'.last.sender \notin {"owner", "authorizedFactory"} =>
                 /\ taker'.last.outcome = "Unauthorized"
                 /\ TakerHoldings(taker') = TakerHoldings(taker)
           /\ taker'.last.sender \in {"owner", "authorizedFactory"} =>
                 taker'.last.outcome # "Unauthorized"
           /\ TakerHoldings(taker') # TakerHoldings(taker) =>
                 taker'.last.sender \in {"owner", "authorizedFactory"}
    /\ TakerEffects(taker') # TakerEffects(taker) =>
           /\ taker'.last.fn \in {"takeWithAtomicSwap", "recover"}
           /\ taker'.last.sender \in {"owner", "authorizedFactory"}
    /\ (/\ taker'.calls # taker.calls
        /\ taker'.last.fn = "atomicSwapCallback") =>
           /\ taker'.last.outcome # "Unauthorized"
           /\ \A token \in TakerTokens :
                 taker'.balance[token] >= taker.balance[token]
           /\ \A router \in Routers :
                 taker'.routerAllowance[router] # taker.routerAllowance[router] =>
                     /\ router = taker'.last.router
                     /\ taker'.routerAllowance[router] =
                            taker'.last.collateral - taker'.last.pulled

\* C39: takeWithAtomicSwap and recover take effect only when the owner or
\* the authorized factory calls them; a call of either from any other
\* address is rejected with Unauthorized and changes no allowance and no
\* balance.  No step of any kind, the callback that another address's
\* pool.take runs and a plain token transfer included, approves the pool or
\* sends the owner anything unless it is one of the two functions called by
\* the owner or the factory.  The callback is not behind the modifier: run
\* for any address it never lowers a balance of the contract, and the only
\* allowance it touches is that of the router it was given, left at the
\* collateral the router did not pull.
C39_OnlyOwnerOrFactory == [][C39_StepOnlyOwnerOrFactory]_vars

\* Another address has called recover while the contract held quote token,
\* and was rejected.
C39_Witness ==
    /\ taker.last.fn = "recover"
    /\ taker.last.sender = "other"
    /\ taker.last.outcome = "Unauthorized"
    /\ taker.balance["quote"] > 0

====
